---- MODULE Spec2Model ----
(***************************************************************************)
(* A model of the MIDI engine of mkmidilibrary (src/src/midi): messages,   *)
(* events and their total order, the MidiTrack buffer with its sorted and  *)
(* absolute_time flags, note linking, the delta/absolute transforms, the   *)
(* variable-length quantity codec and the Standard MIDI File container.    *)
(*                                                                         *)
(* Conventions.  A Rust Vec is a TLA+ sequence; source indices are         *)
(* zero-based, so source index i is element i + 1 of the sequence (At).    *)
(* Option<T> is the value or None.  A byte is an integer in 0..255.        *)
(***************************************************************************)
EXTENDS Integers, Sequences, FiniteSets, TLC

VARIABLES
    track,      \* the MidiTrack under test: [events, name, absolute_time, sorted]
    op,         \* the last operation that acted
    saved,      \* the track as it was when make_delta_times last converted it
    pool,       \* events still to be handed to add_event (SpecBuild)
    file,       \* the MidiFile under construction: [format, ticks_per_quarter,
                \* tracks, time_map]
    wire,       \* the byte buffer last written, possibly cut short since
    result,     \* what the last read of wire returned
    quantity,   \* the u32 handed to write_varlen (SpecVarlen)
    input       \* what the caller composed for the reader under test: the
                \* pieces of the track bodies (SpecParse), the message
                \* (SpecCodec)

vars == <<track, op, saved, pool, file, wire, result, quantity, input>>

\* what the operations of one MidiTrack leave alone
fvars == <<file, wire, result, quantity, input>>

\* what the operations on a MidiFile and on byte buffers leave alone
tvars == <<track, saved, pool, input>>

(***************************************************************************)
(* Bounds of the model.                                                    *)
(***************************************************************************)
MaxLen == 2          \* longest event buffer of the track under test
MaxTick == 1         \* ticks of the track under test range over 0..MaxTick
PoolTick == 3        \* the notes handed to add_event lie within 0..PoolTick
MaxPool == 5         \* most events handed to add_event in one build

(***************************************************************************)
(* Option and small helpers.                                               *)
(***************************************************************************)
None == -1

At(s, i) == s[i + 1]

Min(S) == CHOOSE x \in S : \A y \in S : x <= y

Range(s) == {s[i] : i \in 1..Len(s)}

(***************************************************************************)
(* MidiMessage and MetaEvent (message.rs).                                 *)
(***************************************************************************)
NoteOff(channel, key, velocity) ==
    [type |-> "NoteOff", channel |-> channel, key |-> key, velocity |-> velocity]

NoteOn(channel, key, velocity) ==
    [type |-> "NoteOn", channel |-> channel, key |-> key, velocity |-> velocity]

ControlChange(channel, controller, value) ==
    [type |-> "ControlChange", channel |-> channel, controller |-> controller,
     value |-> value]

ProgramChange(channel, program) ==
    [type |-> "ProgramChange", channel |-> channel, program |-> program]

SysEx(data) == [type |-> "SysEx", data |-> data]

TimingClock == [type |-> "TimingClock"]

Meta(meta) == [type |-> "Meta", meta |-> meta]

EndOfTrack == [kind |-> "EndOfTrack"]

Tempo(us) == [kind |-> "Tempo", us |-> us]

Unknown(type_, data) == [kind |-> "Unknown", type_ |-> type_, data |-> data]

ChannelTypes ==
    {"NoteOff", "NoteOn", "PolyPressure", "ControlChange", "ProgramChange",
     "ChannelPressure", "PitchBend"}

\* MidiMessage::channel
message_channel(msg) == IF msg.type \in ChannelTypes THEN msg.channel ELSE None

\* MidiMessage::is_note_on: a NoteOn with velocity > 0
message_is_note_on(msg) == msg.type = "NoteOn" /\ msg.velocity > 0

\* MidiMessage::is_note_off: a NoteOff, or a NoteOn with velocity 0
message_is_note_off(msg) ==
    msg.type = "NoteOff" \/ (msg.type = "NoteOn" /\ msg.velocity = 0)

message_is_meta(msg) == msg.type = "Meta"

(***************************************************************************)
(* MidiEvent (event.rs).                                                   *)
(***************************************************************************)
MidiEvent_new(tick, message) ==
    [tick |-> tick, message |-> message, track |-> 0, seconds |-> None,
     seq |-> 0, linked_event |-> None]

is_note_on(event) == message_is_note_on(event.message)

is_note_off(event) == message_is_note_off(event.message)

is_meta(event) == message_is_meta(event.message)

channel(event) == message_channel(event.message)

key(event) ==
    IF event.message.type \in {"NoteOn", "NoteOff"} THEN event.message.key ELSE None

set_linked_event(event, index) == [event EXCEPT !.linked_event = index]

\* A mutant of event_priority: note-ons rank before note-offs.
event_priority_swapped(msg) ==
    IF msg.type = "Meta" THEN 0
    ELSE IF msg.type = "NoteOff" THEN 4
    ELSE IF msg.type = "NoteOn" /\ msg.velocity = 0 THEN 4
    ELSE IF msg.type = "ProgramChange" THEN 2
    ELSE IF msg.type = "ControlChange" THEN 3
    ELSE IF msg.type = "NoteOn" THEN 1
    ELSE 5

event_priority(msg) ==
    IF msg.type = "Meta" THEN 0
    ELSE IF msg.type = "NoteOff" THEN 1
    ELSE IF msg.type = "NoteOn" /\ msg.velocity = 0 THEN 1
    ELSE IF msg.type = "ProgramChange" THEN 2
    ELSE IF msg.type = "ControlChange" THEN 3
    ELSE IF msg.type = "NoteOn" THEN 4
    ELSE 5

int_cmp(a, b) == IF a < b THEN "Less" ELSE IF a > b THEN "Greater" ELSE "Equal"

\* impl Ord for MidiEvent: tick, then type priority, then seq
cmp(self, other) ==
    IF int_cmp(self.tick, other.tick) # "Equal"
    THEN int_cmp(self.tick, other.tick)
    ELSE IF int_cmp(event_priority(self.message), event_priority(other.message)) # "Equal"
    THEN int_cmp(event_priority(self.message), event_priority(other.message))
    ELSE int_cmp(self.seq, other.seq)

(***************************************************************************)
(* Vec<MidiEvent>::sort: the standard library's stable sort under cmp.     *)
(* Elements that compare Equal keep their relative order.                  *)
(***************************************************************************)
insert_stable(s, e) ==
    LET gt == {i \in 1..Len(s) : cmp(e, s[i]) = "Less"}
        p == IF gt = {} THEN Len(s) + 1 ELSE Min(gt)
    IN SubSeq(s, 1, p - 1) \o <<e>> \o SubSeq(s, p, Len(s))

RECURSIVE slice_sort(_)
slice_sort(s) ==
    IF s = <<>> THEN <<>>
    ELSE insert_stable(slice_sort(SubSeq(s, 1, Len(s) - 1)), s[Len(s)])

(***************************************************************************)
(* MidiTrack (track.rs).  Every operation is a function from the track     *)
(* before the call to the track after it.                                  *)
(***************************************************************************)
NoName == "None"

MidiTrack_new ==
    [events |-> <<>>, name |-> NoName, absolute_time |-> TRUE, sorted |-> TRUE]

MidiTrack_with_name(name) == [MidiTrack_new EXCEPT !.name = name]

is_sorted(t) == t.sorted

is_absolute_time(t) == t.absolute_time

add_event(t, event) ==
    LET events == Append(t.events, event)
        lost == t.sorted /\ Len(events) > 1
                /\ event.tick < At(events, Len(events) - 2).tick
    IN [t EXCEPT !.events = events, !.sorted = IF lost THEN FALSE ELSE t.sorted]

\* A mutant of insert_event: the sorted flag is left as it was.
insert_event_keeps_flag(t, index, event) ==
    [t EXCEPT !.events = SubSeq(t.events, 1, index) \o <<event>>
                         \o SubSeq(t.events, index + 1, Len(t.events))]

\* Vec::insert: index <= len is the caller's obligation (it panics otherwise)
insert_event(t, index, event) ==
    [t EXCEPT !.events = SubSeq(t.events, 1, index) \o <<event>>
                         \o SubSeq(t.events, index + 1, Len(t.events)),
              !.sorted = FALSE]

remove_event(t, index) ==
    IF index < Len(t.events)
    THEN [t EXCEPT !.events = SubSeq(t.events, 1, index)
                              \o SubSeq(t.events, index + 2, Len(t.events))]
    ELSE t

clear(t) == [t EXCEPT !.events = <<>>, !.sorted = TRUE]

\* events_mut: the flag is cleared and the caller may then write the buffer
events_mut(t) == [t EXCEPT !.sorted = FALSE]

\* A mutant of sort: it sorts without looking at the sorted flag and leaves
\* the flag alone.
sort_keeps_flag(t) ==
    [t EXCEPT !.events =
        slice_sort([i \in 1..Len(t.events) |-> [t.events[i] EXCEPT !.seq = i - 1]])]

sort(t) ==
    IF ~t.sorted
    THEN [t EXCEPT !.events =
              slice_sort([i \in 1..Len(t.events) |-> [t.events[i] EXCEPT !.seq = i - 1]]),
                   !.sorted = TRUE]
    ELSE t

last_tick(t) == IF t.events = <<>> THEN 0 ELSE t.events[Len(t.events)].tick

\* u64 subtraction.  Below zero the build decides (a panic with overflow
\* checks, a wrapped value without): Overflowed stands for either outcome.
Overflowed == -2

u64_sub(a, b) == IF a >= b THEN a - b ELSE Overflowed

RECURSIVE absolute_loop(_, _, _)
absolute_loop(events, i, current_tick) ==
    IF i >= Len(events) THEN events
    ELSE LET tick == current_tick + At(events, i).tick
         IN absolute_loop([events EXCEPT ![i + 1].tick = tick], i + 1, tick)

\* A mutant of make_absolute_times: it flips the mode and leaves the ticks.
make_absolute_times_flag_only(t) ==
    IF ~t.absolute_time THEN [t EXCEPT !.absolute_time = TRUE] ELSE t

make_absolute_times(t) ==
    IF ~t.absolute_time
    THEN [t EXCEPT !.events = absolute_loop(t.events, 0, 0), !.absolute_time = TRUE]
    ELSE t

RECURSIVE delta_loop(_, _, _)
delta_loop(events, i, prev_tick) ==
    IF i >= Len(events) THEN events
    ELSE LET abs_tick == At(events, i).tick
         IN delta_loop([events EXCEPT ![i + 1].tick = u64_sub(abs_tick, prev_tick)],
                       i + 1, abs_tick)

make_delta_times(t) ==
    IF t.absolute_time
    THEN LET s == sort(t)
         IN [s EXCEPT !.events = delta_loop(s.events, 0, 0), !.absolute_time = FALSE]
    ELSE t

\* active_notes: one FIFO of pending note-on indices per channel * 128 + key.
\* The source allocates all 16 * 128 queues; only those of the track's own
\* (channel, key) pairs are ever touched.
NoteSlots(events) ==
    {channel(e) * 128 + key(e) : e \in {x \in Range(events) : key(x) # None}}

\* A mutant of link_loop: the newest pending note-on is taken (LIFO).
RECURSIVE link_loop_lifo(_, _, _)
link_loop_lifo(events, i, active_notes) ==
    IF i >= Len(events) THEN events
    ELSE LET event == At(events, i)
             idx == channel(event) * 128 + key(event)
         IN IF channel(event) # None /\ key(event) # None
            THEN IF is_note_on(event)
                 THEN link_loop_lifo(events, i + 1,
                                [active_notes EXCEPT ![idx] = Append(@, i)])
                 ELSE IF is_note_off(event) /\ active_notes[idx] # <<>>
                 THEN LET on_idx == active_notes[idx][Len(active_notes[idx])]
                          linked == [events EXCEPT
                                        ![on_idx + 1] = set_linked_event(@, i),
                                        ![i + 1] = set_linked_event(@, on_idx)]
                      IN link_loop_lifo(linked, i + 1,
                             [active_notes EXCEPT
                                 ![idx] = SubSeq(@, 1, Len(@) - 1)])
                 ELSE link_loop_lifo(events, i + 1, active_notes)
            ELSE link_loop_lifo(events, i + 1, active_notes)

RECURSIVE link_loop(_, _, _)
link_loop(events, i, active_notes) ==
    IF i >= Len(events) THEN events
    ELSE LET event == At(events, i)
             idx == channel(event) * 128 + key(event)
         IN IF channel(event) # None /\ key(event) # None
            THEN IF is_note_on(event)
                 THEN link_loop(events, i + 1,
                                [active_notes EXCEPT ![idx] = Append(@, i)])
                 ELSE IF is_note_off(event) /\ active_notes[idx] # <<>>
                 THEN LET on_idx == Head(active_notes[idx])
                          linked == [events EXCEPT
                                        ![on_idx + 1] = set_linked_event(@, i),
                                        ![i + 1] = set_linked_event(@, on_idx)]
                      IN link_loop(linked, i + 1,
                                   [active_notes EXCEPT ![idx] = Tail(@)])
                 ELSE link_loop(events, i + 1, active_notes)
            ELSE link_loop(events, i + 1, active_notes)

link_note_events(t) ==
    LET s == sort(t)
    IN [s EXCEPT !.events =
           link_loop(s.events, 0, [idx \in NoteSlots(s.events) |-> <<>>])]

unlink_note_events(t) ==
    [t EXCEPT !.events = [i \in 1..Len(t.events) |-> set_linked_event(t.events[i], None)]]

\* MidiEvent::note_on and MidiEvent::note_off: the channel is masked to four
\* bits, key and velocity to seven
note_on(tick, ch, k, velocity) ==
    MidiEvent_new(tick, NoteOn(ch % 16, k % 128, velocity % 128))

note_off(tick, ch, k, velocity) ==
    MidiEvent_new(tick, NoteOff(ch % 16, k % 128, velocity % 128))

\* A mutant of add_note: each event is linked to itself.
add_note_self_linked(t, start_tick, duration, ch, k, velocity) ==
    LET on_idx == Len(t.events)
        on_event == set_linked_event(note_on(start_tick, ch, k, velocity), on_idx)
        off_event == set_linked_event(note_off(start_tick + duration, ch, k, 0),
                                      on_idx + 1)
    IN [t EXCEPT !.events = Append(Append(t.events, on_event), off_event),
                 !.sorted = FALSE]

add_note(t, start_tick, duration, ch, k, velocity) ==
    LET on_idx == Len(t.events)
        on_event == set_linked_event(note_on(start_tick, ch, k, velocity), on_idx + 1)
        off_event == set_linked_event(note_off(start_tick + duration, ch, k, 0), on_idx)
    IN [t EXCEPT !.events = Append(Append(t.events, on_event), off_event),
                 !.sorted = FALSE]

RECURSIVE merge_loop(_, _, _)
merge_loop(t, events, i) ==
    IF i >= Len(events) THEN t
    ELSE merge_loop(add_event(t, At(events, i)), events, i + 1)

merge(t, other) == [merge_loop(t, other.events, 0) EXCEPT !.sorted = FALSE]

(***************************************************************************)
(* Bytes, slices and results.                                              *)
(***************************************************************************)
\* data[from..to]: zero-based, half-open; from <= to <= len is the caller's
\* obligation (the slice expression panics otherwise)
Slice(data, from, to) == SubSeq(data, from + 1, to)

Reverse(s) == [i \in 1..Len(s) |-> s[Len(s) + 1 - i]]

\* Option::None of an Option that holds a tuple
NoneV == <<>>

\* Result::Ok, Result::Err(MidiError) and a panic of the callee
Ok(v) == [kind |-> "Ok", value |-> v]

Err(name, arg) == [kind |-> "Err", error |-> name, arg |-> arg]

Panic == [kind |-> "Panic"]

\* no read has run yet
NotRun == [kind |-> "NotRun"]

\* nothing was composed for a reader
NoInput == <<>>

\* `as u32` of a u64 or usize: the numbers of the model, all below 2^31,
\* are left as they are
as_u32(n) == n

\* a | b on unsigned integers
RECURSIVE BitOr(_, _)
BitOr(a, b) ==
    IF a = 0 THEN b
    ELSE IF b = 0 THEN a
    ELSE (IF a % 2 = 1 \/ b % 2 = 1 THEN 1 ELSE 0) + 2 * BitOr(a \div 2, b \div 2)

read_u16_be(bytes) == At(bytes, 0) * 256 + At(bytes, 1)

read_u32_be(bytes) ==
    At(bytes, 0) * 16777216 + At(bytes, 1) * 65536 + At(bytes, 2) * 256 + At(bytes, 3)

u16_to_be_bytes(v) == <<(v \div 256) % 256, v % 256>>

u32_to_be_bytes(v) ==
    <<(v \div 16777216) % 256, (v \div 65536) % 256, (v \div 256) % 256, v % 256>>

(***************************************************************************)
(* The variable-length quantity codec of file.rs.                          *)
(***************************************************************************)
\* value << 7 never leaves a u32: at most four groups of seven bits are read
RECURSIVE read_varlen_loop(_, _, _)
read_varlen_loop(bytes, i, v) ==
    IF i >= Len(bytes) \/ i >= 4
    THEN NoneV
    ELSE LET byte == At(bytes, i)
             shifted == (v * 128) + (byte % 128)
         IN IF byte \div 128 = 0
            THEN <<shifted, i + 1>>
            ELSE read_varlen_loop(bytes, i + 1, shifted)

\* Some((value, bytes_read)) as <<value, bytes_read>>, None as NoneV
read_varlen(bytes) == read_varlen_loop(bytes, 0, 0)

RECURSIVE write_varlen_loop(_, _)
write_varlen_loop(bytes, v) ==
    IF v > 0
    THEN write_varlen_loop(Append(bytes, (v % 128) + 128), v \div 128)
    ELSE bytes

\* A mutant of write_varlen: the groups stay least significant first.
write_varlen_unreversed(v) ==
    IF v = 0 THEN <<0>> ELSE write_varlen_loop(<<v % 128>>, v \div 128)

write_varlen(v) ==
    IF v = 0 THEN <<0>> ELSE Reverse(write_varlen_loop(<<v % 128>>, v \div 128))

\* MetaEvent::encode_varlen and MetaEvent::decode_varlen (message.rs)
encode_varlen(v) == Reverse(write_varlen_loop(<<v % 128>>, v \div 128))

decode_varlen(bytes) == read_varlen_loop(bytes, 0, 0)

(***************************************************************************)
(* The remaining MidiMessage and MetaEvent variants, and the byte form of  *)
(* a message (message.rs).  A String is the sequence of its code points.   *)
(***************************************************************************)
PolyPressure(ch, k, pressure) ==
    [type |-> "PolyPressure", channel |-> ch, key |-> k, pressure |-> pressure]

ChannelPressure(ch, pressure) ==
    [type |-> "ChannelPressure", channel |-> ch, pressure |-> pressure]

PitchBend(ch, bend) == [type |-> "PitchBend", channel |-> ch, value |-> bend]

MtcQuarterFrame(byte) == [type |-> "MtcQuarterFrame", data |-> byte]

SongPosition(position) == [type |-> "SongPosition", pos |-> position]

SongSelect(song) == [type |-> "SongSelect", song |-> song]

TuneRequest == [type |-> "TuneRequest"]

Start == [type |-> "Start"]

Continue == [type |-> "Continue"]

Stop == [type |-> "Stop"]

ActiveSensing == [type |-> "ActiveSensing"]

SystemReset == [type |-> "SystemReset"]

SequenceNumber(n) == [kind |-> "SequenceNumber", n |-> n]

\* Text, Copyright, TrackName, InstrumentName, Lyric, Marker, CuePoint,
\* ProgramName, DeviceName: the variants that hold a String, by type byte
TextKinds ==
    <<"Text", "Copyright", "TrackName", "InstrumentName", "Lyric", "Marker",
      "CuePoint", "ProgramName", "DeviceName">>

TextEvent(name, s) == [kind |-> name, s |-> s]

ChannelPrefix(ch) == [kind |-> "ChannelPrefix", ch |-> ch]

MidiPort(port) == [kind |-> "MidiPort", port |-> port]

SmpteOffset(hours, minutes, seconds, frames, subframes) ==
    [kind |-> "SmpteOffset", hours |-> hours, minutes |-> minutes,
     seconds |-> seconds, frames |-> frames, subframes |-> subframes]

TimeSignature(numerator, denominator_power, clocks_per_click, notated_32nd_per_quarter) ==
    [kind |-> "TimeSignature", numerator |-> numerator,
     denominator_power |-> denominator_power,
     clocks_per_click |-> clocks_per_click,
     notated_32nd_per_quarter |-> notated_32nd_per_quarter]

KeySignature(sharps_flats, minor) ==
    [kind |-> "KeySignature", sharps_flats |-> sharps_flats, minor |-> minor]

SequencerSpecific(bytes) == [kind |-> "SequencerSpecific", data |-> bytes]

\* String::as_bytes, for strings of code points below U+0800: UTF-8 gives an
\* ASCII code point one byte and the others two
RECURSIVE as_bytes(_)
as_bytes(s) ==
    IF s = <<>> THEN <<>>
    ELSE (IF Head(s) < 128 THEN <<Head(s)>>
          ELSE <<192 + (Head(s) \div 64), 128 + (Head(s) % 64)>>)
         \o as_bytes(Tail(s))

\* String::from_utf8_lossy over such bytes: an ASCII byte is its code point,
\* a lead byte 0xC2..0xDF with a continuation byte is a two-byte code point,
\* and a byte that starts no valid sequence becomes U+FFFD
RECURSIVE from_utf8_lossy(_)
from_utf8_lossy(bytes) ==
    IF bytes = <<>> THEN <<>>
    ELSE IF Head(bytes) < 128 THEN <<Head(bytes)>> \o from_utf8_lossy(Tail(bytes))
    ELSE IF /\ Head(bytes) \in 194..223
            /\ Len(bytes) >= 2
            /\ bytes[2] \in 128..191
    THEN <<(Head(bytes) - 192) * 64 + (bytes[2] - 128)>>
             \o from_utf8_lossy(Tail(Tail(bytes)))
    ELSE <<65533>> \o from_utf8_lossy(Tail(bytes))

type_byte(meta) ==
    IF meta.kind = "SequenceNumber" THEN 0
    ELSE IF \E i \in 1..9 : TextKinds[i] = meta.kind
    THEN CHOOSE i \in 1..9 : TextKinds[i] = meta.kind
    ELSE IF meta.kind = "ChannelPrefix" THEN 32
    ELSE IF meta.kind = "MidiPort" THEN 33
    ELSE IF meta.kind = "EndOfTrack" THEN 47
    ELSE IF meta.kind = "Tempo" THEN 81
    ELSE IF meta.kind = "SmpteOffset" THEN 84
    ELSE IF meta.kind = "TimeSignature" THEN 88
    ELSE IF meta.kind = "KeySignature" THEN 89
    ELSE IF meta.kind = "SequencerSpecific" THEN 127
    ELSE meta.type_

\* the payload MetaEvent::to_bytes writes after the length
meta_payload(meta) ==
    IF meta.kind = "SequenceNumber" THEN <<(meta.n \div 256) % 256, meta.n % 256>>
    ELSE IF \E i \in 1..9 : TextKinds[i] = meta.kind THEN as_bytes(meta.s)
    ELSE IF meta.kind = "ChannelPrefix" THEN <<meta.ch>>
    ELSE IF meta.kind = "MidiPort" THEN <<meta.port>>
    ELSE IF meta.kind = "EndOfTrack" THEN <<>>
    ELSE IF meta.kind = "Tempo"
    THEN <<(meta.us \div 65536) % 256, (meta.us \div 256) % 256, meta.us % 256>>
    ELSE IF meta.kind = "SmpteOffset"
    THEN <<meta.hours, meta.minutes, meta.seconds, meta.frames, meta.subframes>>
    ELSE IF meta.kind = "TimeSignature"
    THEN <<meta.numerator, meta.denominator_power, meta.clocks_per_click,
           meta.notated_32nd_per_quarter>>
    ELSE IF meta.kind = "KeySignature"
    THEN <<(meta.sharps_flats + 256) % 256, IF meta.minor THEN 1 ELSE 0>>
    ELSE meta.data

MetaEvent_to_bytes(meta) ==
    <<255, type_byte(meta)>> \o encode_varlen(as_u32(Len(meta_payload(meta))))
        \o meta_payload(meta)

\* the variant MetaEvent::from_bytes builds from a type byte and its payload
meta_of(type_, event_data) ==
    IF type_ = 0 /\ Len(event_data) >= 2
    THEN SequenceNumber(At(event_data, 0) * 256 + At(event_data, 1))
    ELSE IF type_ \in 1..9 THEN TextEvent(TextKinds[type_], from_utf8_lossy(event_data))
    ELSE IF type_ = 32 /\ event_data # <<>> THEN ChannelPrefix(At(event_data, 0))
    ELSE IF type_ = 33 /\ event_data # <<>> THEN MidiPort(At(event_data, 0))
    ELSE IF type_ = 47 THEN EndOfTrack
    ELSE IF type_ = 81 /\ Len(event_data) >= 3
    THEN Tempo(At(event_data, 0) * 65536 + At(event_data, 1) * 256 + At(event_data, 2))
    ELSE IF type_ = 84 /\ Len(event_data) >= 5
    THEN SmpteOffset(At(event_data, 0), At(event_data, 1), At(event_data, 2),
                     At(event_data, 3), At(event_data, 4))
    ELSE IF type_ = 88 /\ Len(event_data) >= 4
    THEN TimeSignature(At(event_data, 0), At(event_data, 1), At(event_data, 2),
                       At(event_data, 3))
    ELSE IF type_ = 89 /\ Len(event_data) >= 2
    THEN KeySignature(IF At(event_data, 0) >= 128 THEN At(event_data, 0) - 256
                      ELSE At(event_data, 0),
                      At(event_data, 1) # 0)
    ELSE IF type_ = 127 THEN SequencerSpecific(event_data)
    ELSE Unknown(type_, event_data)

\* Some((event, data_end)) as <<event, data_end>>, None as NoneV; bytes
\* starts after the 0xFF prefix
MetaEvent_from_bytes(bytes) ==
    IF bytes = <<>> THEN NoneV
    ELSE LET length == decode_varlen(Slice(bytes, 1, Len(bytes)))
         IN IF length = NoneV THEN NoneV
            ELSE LET data_start == 1 + length[2]
                     data_end == data_start + length[1]
                 IN IF Len(bytes) < data_end THEN NoneV
                    ELSE <<meta_of(At(bytes, 0), Slice(bytes, data_start, data_end)),
                           data_end>>

\* MidiMessage::to_bytes
message_to_bytes(msg) ==
    IF msg.type = "NoteOff" THEN <<BitOr(128, msg.channel), msg.key, msg.velocity>>
    ELSE IF msg.type = "NoteOn" THEN <<BitOr(144, msg.channel), msg.key, msg.velocity>>
    ELSE IF msg.type = "PolyPressure" THEN <<BitOr(160, msg.channel), msg.key, msg.pressure>>
    ELSE IF msg.type = "ControlChange"
    THEN <<BitOr(176, msg.channel), msg.controller, msg.value>>
    ELSE IF msg.type = "ProgramChange" THEN <<BitOr(192, msg.channel), msg.program>>
    ELSE IF msg.type = "ChannelPressure" THEN <<BitOr(208, msg.channel), msg.pressure>>
    ELSE IF msg.type = "PitchBend"
    THEN <<BitOr(224, msg.channel), msg.value % 128, (msg.value \div 128) % 256>>
    ELSE IF msg.type = "SysEx" THEN <<240>> \o msg.data \o <<247>>
    ELSE IF msg.type = "MtcQuarterFrame" THEN <<241, msg.data>>
    ELSE IF msg.type = "SongPosition"
    THEN <<242, msg.pos % 128, (msg.pos \div 128) % 256>>
    ELSE IF msg.type = "SongSelect" THEN <<243, msg.song>>
    ELSE IF msg.type = "TuneRequest" THEN <<246>>
    ELSE IF msg.type = "TimingClock" THEN <<248>>
    ELSE IF msg.type = "Start" THEN <<250>>
    ELSE IF msg.type = "Continue" THEN <<251>>
    ELSE IF msg.type = "Stop" THEN <<252>>
    ELSE IF msg.type = "ActiveSensing" THEN <<254>>
    ELSE IF msg.type = "SystemReset" THEN <<255>>
    ELSE MetaEvent_to_bytes(msg.meta)

\* A mutant of or_shl7: the second byte is shifted by a whole byte.
or_shl8(lo, hi) == BitOr(lo, hi * 256)

\* (lo as u16) | ((hi as u16) << 7) for two bytes
or_shl7(lo, hi) == BitOr(lo, hi * 128)

\* data.iter().position(|&b| b == byte): the first zero-based index, or None
position(bytes, byte) ==
    IF \E i \in 1..Len(bytes) : bytes[i] = byte
    THEN Min({i \in 1..Len(bytes) : bytes[i] = byte}) - 1
    ELSE None

\* MidiMessage::from_bytes: Some((message, consumed)) as <<message, consumed>>,
\* None as NoneV
message_from_bytes(bytes) ==
    IF bytes = <<>> THEN NoneV
    ELSE
    LET status == At(bytes, 0)
        ch == status % 16
        high == status - ch
    IN
    IF high = 128 /\ Len(bytes) >= 3 THEN <<NoteOff(ch, At(bytes, 1), At(bytes, 2)), 3>>
    ELSE IF high = 144 /\ Len(bytes) >= 3
    THEN <<NoteOn(ch, At(bytes, 1), At(bytes, 2)), 3>>
    ELSE IF high = 160 /\ Len(bytes) >= 3
    THEN <<PolyPressure(ch, At(bytes, 1), At(bytes, 2)), 3>>
    ELSE IF high = 176 /\ Len(bytes) >= 3
    THEN <<ControlChange(ch, At(bytes, 1), At(bytes, 2)), 3>>
    ELSE IF high = 192 /\ Len(bytes) >= 2 THEN <<ProgramChange(ch, At(bytes, 1)), 2>>
    ELSE IF high = 208 /\ Len(bytes) >= 2 THEN <<ChannelPressure(ch, At(bytes, 1)), 2>>
    ELSE IF high = 224 /\ Len(bytes) >= 3
    THEN <<PitchBend(ch, or_shl7(At(bytes, 1), At(bytes, 2))), 3>>
    ELSE IF high # 240 THEN NoneV
    ELSE IF status = 240
    THEN LET end == position(bytes, 247)
         IN IF end # None THEN <<SysEx(Slice(bytes, 1, end)), end + 1>> ELSE NoneV
    ELSE IF status = 241 /\ Len(bytes) >= 2 THEN <<MtcQuarterFrame(At(bytes, 1)), 2>>
    ELSE IF status = 242 /\ Len(bytes) >= 3
    THEN <<SongPosition(or_shl7(At(bytes, 1), At(bytes, 2))), 3>>
    ELSE IF status = 243 /\ Len(bytes) >= 2 THEN <<SongSelect(At(bytes, 1)), 2>>
    ELSE IF status = 246 THEN <<TuneRequest, 1>>
    ELSE IF status = 248 THEN <<TimingClock, 1>>
    ELSE IF status = 250 THEN <<Start, 1>>
    ELSE IF status = 251 THEN <<Continue, 1>>
    ELSE IF status = 252 THEN <<Stop, 1>>
    ELSE IF status = 254 THEN <<ActiveSensing, 1>>
    ELSE IF status = 255
    THEN IF Len(bytes) >= 2 /\ At(bytes, 1) < 128
         THEN LET meta == MetaEvent_from_bytes(Slice(bytes, 1, Len(bytes)))
              IN IF meta = NoneV THEN NoneV ELSE <<Meta(meta[1]), meta[2] + 1>>
         ELSE <<SystemReset, 1>>
    ELSE NoneV

(***************************************************************************)
(* MidiTrack: the end-of-track marker (track.rs).                          *)
(***************************************************************************)
add_end_of_track(t) == add_event(t, MidiEvent_new(last_tick(t), Meta(EndOfTrack)))

\* A mutant of ensure_end_of_track: the marker is added without looking.
ensure_end_of_track_always(t) == add_end_of_track(t)

ensure_end_of_track(t) ==
    LET has_eot == \E i \in 1..Len(t.events) : t.events[i].message = Meta(EndOfTrack)
    IN IF ~has_eot THEN add_end_of_track(t) ELSE t

(***************************************************************************)
(* parse_track and encode_track (file.rs).                                 *)
(***************************************************************************)
\* the match on actual_status & 0xF0 of parse_track: the data bytes the
\* message takes, 0 for the arm that rejects the status
data_bytes(high) ==
    IF high \in {128, 144, 160, 176, 224} THEN 2
    ELSE IF high \in {192, 208} THEN 1
    ELSE 0

channel_message(high, ch, bytes, data_start) ==
    IF high = 128 THEN NoteOff(ch, At(bytes, data_start), At(bytes, data_start + 1))
    ELSE IF high = 144 THEN NoteOn(ch, At(bytes, data_start), At(bytes, data_start + 1))
    ELSE IF high = 160
    THEN PolyPressure(ch, At(bytes, data_start), At(bytes, data_start + 1))
    ELSE IF high = 176
    THEN ControlChange(ch, At(bytes, data_start), At(bytes, data_start + 1))
    ELSE IF high = 192 THEN ProgramChange(ch, At(bytes, data_start))
    ELSE IF high = 208 THEN ChannelPressure(ch, At(bytes, data_start))
    ELSE PitchBend(ch, or_shl7(At(bytes, data_start), At(bytes, data_start + 1)))

\* the while loop of parse_track, from the state it holds at the loop head
RECURSIVE parse_loop(_, _, _, _, _)
parse_loop(bytes, pos, running_status, current_tick, t) ==
    IF ~(pos < Len(bytes)) THEN Ok(t)
    ELSE
    LET delta == read_varlen(Slice(bytes, pos, Len(bytes))) IN
    IF delta = NoneV THEN Err("InvalidVarLen", None)
    ELSE
    LET at == pos + delta[2]
        tick == current_tick + delta[1]
    IN
    IF at >= Len(bytes) THEN Ok(t)
    ELSE
    LET status == At(bytes, at) IN
    IF status = 255
    THEN IF at + 1 >= Len(bytes) THEN Err("UnexpectedEof", None)
         ELSE LET meta == MetaEvent_from_bytes(Slice(bytes, at + 1, Len(bytes)))
              IN IF meta = NoneV THEN Err("UnexpectedEof", None)
                 ELSE parse_loop(bytes, at + 1 + meta[2], None, tick,
                                 add_event(t, MidiEvent_new(tick, Meta(meta[1]))))
    ELSE IF status = 240 \/ status = 247
    THEN LET length == read_varlen(Slice(bytes, at + 1, Len(bytes)))
         IN IF length = NoneV THEN Err("InvalidVarLen", None)
            ELSE LET from == at + 1 + length[2]
                     to == from + length[1]
                 IN IF to > Len(bytes) THEN Panic
                    ELSE parse_loop(bytes, to, None, tick,
                                    add_event(t, MidiEvent_new(tick,
                                                  SysEx(Slice(bytes, from, to)))))
    ELSE IF status < 128 /\ running_status = None
    THEN Err("InvalidRunningStatus", None)
    ELSE
    LET actual_status == IF status >= 128 THEN status ELSE running_status
        data_start == IF status >= 128 THEN at + 1 ELSE at
        ch == actual_status % 16
        high == actual_status - ch
    IN
    IF data_bytes(high) = 0 THEN Err("InvalidStatus", actual_status)
    ELSE IF data_start + data_bytes(high) > Len(bytes) THEN Err("UnexpectedEof", None)
    ELSE parse_loop(bytes, data_start + data_bytes(high), actual_status, tick,
                    add_event(t, MidiEvent_new(tick,
                                  channel_message(high, ch, bytes, data_start))))

\* A mutant of parse_track: the body starts with NoteOn on channel 0 as its
\* running status.
parse_track_with_status(bytes) == parse_loop(bytes, 0, 144, 0, MidiTrack_new)

parse_track(bytes) == parse_loop(bytes, 0, None, 0, MidiTrack_new)

saturating_sub(a, b) == IF a >= b THEN a - b ELSE 0

\* the for loop of encode_track over the sorted clone of the events
RECURSIVE encode_loop(_, _, _, _)
encode_loop(events, i, prev_tick, bytes) ==
    IF i >= Len(events) THEN bytes
    ELSE LET event == At(events, i)
             delta == saturating_sub(event.tick, prev_tick)
         IN encode_loop(events, i + 1, event.tick,
                        bytes \o write_varlen(as_u32(delta))
                              \o message_to_bytes(event.message))

encode_track(t) == encode_loop(slice_sort(t.events), 0, 0, <<>>)

(***************************************************************************)
(* MidiFile (file.rs, mod.rs).                                             *)
(***************************************************************************)
\* MidiFile::new: format 1, 480 ticks per quarter note, no track
DefaultTpq == 480

MidiFile_new ==
    [format |-> "MultiTrack", ticks_per_quarter |-> DefaultTpq, tracks |-> <<>>,
     time_map |-> NoneV]

MidiFormats == <<"SingleTrack", "MultiTrack", "MultiSequence">>

\* MidiFormat as u16
format_as_u16(format) == (CHOOSE i \in 1..3 : MidiFormats[i] = format) - 1

\* TryFrom<u16> for MidiFormat
MidiFormat_try_from(n) ==
    IF n \in 0..2 THEN Ok(MidiFormats[n + 1]) ELSE Err("InvalidFormat", n)

add_track(f) == [f EXCEPT !.time_map = NoneV, !.tracks = Append(@, MidiTrack_new)]

\* track_mut(index) followed by add_event on the track it returns
track_add_event(f, index, event) ==
    [f EXCEPT !.time_map = NoneV,
              !.tracks = [@ EXCEPT ![index + 1] = add_event(@, event)]]

finalize(f) ==
    [f EXCEPT !.tracks = [i \in 1..Len(f.tracks) |-> ensure_end_of_track(f.tracks[i])]]

\* b"MThd" and b"MTrk"
MThd == <<77, 84, 104, 100>>

MTrk == <<77, 84, 114, 107>>

header_chunk(f) ==
    MThd \o u32_to_be_bytes(6) \o u16_to_be_bytes(format_as_u16(f.format))
         \o u16_to_be_bytes(Len(f.tracks) % 65536)
         \o u16_to_be_bytes(f.ticks_per_quarter)

track_chunk(track_data) ==
    MTrk \o u32_to_be_bytes(as_u32(Len(track_data))) \o track_data

RECURSIVE track_chunks(_, _)
track_chunks(tracks, i) ==
    IF i >= Len(tracks) THEN <<>>
    ELSE track_chunk(encode_track(At(tracks, i))) \o track_chunks(tracks, i + 1)

to_bytes(f) == header_chunk(f) \o track_chunks(f.tracks, 0)

\* the while loop of from_bytes over the track chunks
RECURSIVE chunk_loop(_, _, _, _)
chunk_loop(bytes, pos, num_tracks, midi_file) ==
    IF ~(pos < Len(bytes) /\ Len(midi_file.tracks) < num_tracks) THEN Ok(midi_file)
    ELSE IF pos + 8 > Len(bytes) THEN Ok(midi_file)
    ELSE IF Slice(bytes, pos, pos + 4) # MTrk THEN Err("InvalidTrackHeader", None)
    ELSE LET track_len == read_u32_be(Slice(bytes, pos + 4, pos + 8))
             body == pos + 8
         IN IF body + track_len > Len(bytes) THEN Err("UnexpectedEof", None)
            ELSE LET parsed == parse_track(Slice(bytes, body, body + track_len))
                 IN IF parsed.kind # "Ok" THEN parsed
                    ELSE chunk_loop(bytes, body + track_len, num_tracks,
                                    [midi_file EXCEPT !.tracks = Append(@, parsed.value)])

from_bytes(bytes) ==
    IF Len(bytes) < 14 THEN Err("InvalidHeader", None)
    ELSE IF Slice(bytes, 0, 4) # MThd THEN Err("InvalidHeader", None)
    ELSE
    LET header_len == read_u32_be(Slice(bytes, 4, 8))
        format == MidiFormat_try_from(read_u16_be(Slice(bytes, 8, 10)))
        num_tracks == read_u16_be(Slice(bytes, 10, 12))
        ticks_per_quarter == read_u16_be(Slice(bytes, 12, 14))
    IN
    IF header_len < 6 THEN Err("InvalidHeader", None)
    ELSE IF format.kind # "Ok" THEN format
    ELSE chunk_loop(bytes, 8 + header_len, num_tracks,
                    [format |-> format.value, ticks_per_quarter |-> ticks_per_quarter,
                     tracks |-> <<>>, time_map |-> NoneV])

(***************************************************************************)
(* Spec: one MidiTrack, from MidiTrack::new(), under any sequence of its   *)
(* public operations.                                                      *)
(***************************************************************************)
Ticks == 0..MaxTick

TrackMessages ==
    {NoteOn(0, 60, 100), NoteOff(0, 60, 0), Meta(EndOfTrack)}

NewEvents == {MidiEvent_new(tick, msg) : tick \in Ticks, msg \in TrackMessages}

Durations == {0, 1}

\* The largest tick add_note can write: a start tick plus a duration.
TickLimit == MaxTick + 1

\* Tracks handed to merge: built by one add_event or one add_note.
OtherTracks ==
    {add_event(MidiTrack_new, e) : e \in NewEvents}
    \cup {add_note(MidiTrack_new, tick, 1, 0, 60, 100) : tick \in Ticks}

NoTrack ==
    [events |-> <<>>, name |-> "NoTrack", absolute_time |-> FALSE, sorted |-> FALSE]

Init ==
    /\ track = MidiTrack_new
    /\ op = "new"
    /\ saved = NoTrack
    /\ pool = {}
    /\ file = MidiFile_new
    /\ wire = <<>>
    /\ result = NotRun
    /\ quantity = 0
    /\ input = NoInput

AddEvent ==
    /\ Len(track.events) < MaxLen
    /\ \E event \in NewEvents : track' = add_event(track, event)
    /\ op' = "add_event"
    /\ saved' = NoTrack
    /\ UNCHANGED <<pool, fvars>>

InsertEvent ==
    /\ Len(track.events) < MaxLen
    /\ \E index \in 0..Len(track.events), event \in NewEvents :
           track' = insert_event(track, index, event)
    /\ op' = "insert_event"
    /\ saved' = NoTrack
    /\ UNCHANGED <<pool, fvars>>

RemoveEvent ==
    /\ \E index \in 0..Len(track.events) : track' = remove_event(track, index)
    /\ op' = "remove_event"
    /\ saved' = NoTrack
    /\ UNCHANGED <<pool, fvars>>

AddNote ==
    /\ Len(track.events) + 2 <= MaxLen
    /\ \E start_tick \in Ticks, duration \in Durations :
           track' = add_note(track, start_tick, duration, 0, 60, 100)
    /\ op' = "add_note"
    /\ saved' = NoTrack
    /\ UNCHANGED <<pool, fvars>>

Merge ==
    /\ \E other \in OtherTracks :
           /\ Len(track.events) + Len(other.events) <= MaxLen
           /\ track' = merge(track, other)
    /\ op' = "merge"
    /\ saved' = NoTrack
    /\ UNCHANGED <<pool, fvars>>

Clear ==
    /\ track' = clear(track)
    /\ op' = "clear"
    /\ saved' = NoTrack
    /\ UNCHANGED <<pool, fvars>>

\* events_mut, the caller then writing the tick of one event or nothing
EventsMut ==
    /\ \/ track' = events_mut(track)
       \/ \E i \in 1..Len(track.events), tick \in Ticks :
              track' = [events_mut(track) EXCEPT !.events[i].tick = tick]
    /\ op' = "events_mut"
    /\ saved' = NoTrack
    /\ UNCHANGED <<pool, fvars>>

Sort ==
    /\ track' = sort(track)
    /\ op' = "sort"
    /\ saved' = NoTrack
    /\ UNCHANGED <<pool, fvars>>

LinkNoteEvents ==
    /\ track' = link_note_events(track)
    /\ op' = "link_note_events"
    /\ saved' = NoTrack
    /\ UNCHANGED <<pool, fvars>>

\* saved remembers the track a converting call started from
MakeDeltaTimes ==
    /\ track' = make_delta_times(track)
    /\ op' = "make_delta_times"
    /\ saved' = IF track.absolute_time THEN track ELSE NoTrack
    /\ UNCHANGED <<pool, fvars>>

\* Ticks stay within 0..TickLimit: a conversion that would sum the deltas
\* past it is left out of the model.
MakeAbsoluteTimes ==
    /\ \A i \in 1..Len(make_absolute_times(track).events) :
           make_absolute_times(track).events[i].tick <= TickLimit
    /\ track' = make_absolute_times(track)
    /\ op' = "make_absolute_times"
    /\ saved' = IF op = "make_delta_times" THEN saved ELSE NoTrack
    /\ UNCHANGED <<pool, fvars>>

Next ==
    \/ AddEvent
    \/ InsertEvent
    \/ RemoveEvent
    \/ AddNote
    \/ Merge
    \/ Clear
    \/ EventsMut
    \/ Sort
    \/ LinkNoteEvents
    \/ MakeDeltaTimes
    \/ MakeAbsoluteTimes

Spec == Init /\ [][Next]_vars

(***************************************************************************)
(* SpecBuild: a track built by add_event alone, from a pool of events      *)
(* handed over in any order, then sorted or linked.  A pool holds          *)
(* non-overlapping notes (note-on at a, note-off at b, a < b, the next     *)
(* note of the key starting at b or later) on key 60, possibly a note on   *)
(* key 61 released by a NoteOn of velocity 0, and possibly one extra       *)
(* release of key 60.                                                      *)
(***************************************************************************)
Spans == {p \in (0..PoolTick) \X (0..PoolTick) : p[1] < p[2]}

NonOverlapping(S) ==
    \A p \in S, q \in S : p = q \/ p[2] <= q[1] \/ q[2] <= p[1]

Chains == {S \in SUBSET Spans : 2 * Cardinality(S) <= MaxPool /\ NonOverlapping(S)}

NoteEvents(k, span, off) ==
    {MidiEvent_new(span[1], NoteOn(0, k, 100)), MidiEvent_new(span[2], off)}

Pools ==
    {P \in
        {UNION {NoteEvents(60, span, NoteOff(0, 60, 0)) : span \in chain}
             \cup other \cup extra :
             chain \in Chains,
             other \in {{}, NoteEvents(61, <<0, 1>>, NoteOn(0, 61, 0))},
             extra \in {{}} \cup {{MidiEvent_new(tick, NoteOn(0, 60, 0))} :
                                     tick \in 0..PoolTick}} :
        Cardinality(P) <= MaxPool}

InitBuild ==
    /\ track = MidiTrack_new
    /\ op = "new"
    /\ saved = NoTrack
    /\ pool \in Pools
    /\ file = MidiFile_new
    /\ wire = <<>>
    /\ result = NotRun
    /\ quantity = 0
    /\ input = NoInput

BuildAddEvent ==
    /\ op \in {"new", "add_event"}
    /\ \E event \in pool :
           /\ track' = add_event(track, event)
           /\ pool' = pool \ {event}
    /\ op' = "add_event"
    /\ UNCHANGED <<saved, fvars>>

BuildSort ==
    /\ pool = {}
    /\ op = "add_event"
    /\ track' = sort(track)
    /\ op' = "sort"
    /\ UNCHANGED <<saved, pool, fvars>>

BuildLink ==
    /\ pool = {}
    /\ op \in {"new", "add_event", "sort"}
    /\ track' = link_note_events(track)
    /\ op' = "link_note_events"
    /\ UNCHANGED <<saved, pool, fvars>>

NextBuild ==
    \/ BuildAddEvent
    \/ BuildSort
    \/ BuildLink

SpecBuild == InitBuild /\ [][NextBuild]_vars

(***************************************************************************)
(* SpecVarlen: one quantity written by write_varlen and read back by       *)
(* read_varlen, alone or with the bytes of an event behind it, as          *)
(* parse_track reads a delta time.                                         *)
(***************************************************************************)
MaxQuantity == 300   \* the quantities 0..MaxQuantity are all tried

\* the quantities around the 14-, 21- and 28-bit boundaries
BoundaryQuantities ==
    {16383, 16384, 16385, 2097151, 2097152, 2097153, 268435454, 268435455,
     268435456}

Quantities == (0..MaxQuantity) \cup BoundaryQuantities

\* what may follow a quantity in a track body
Followers == {<<>>, <<0>>, <<144, 60, 100>>, <<255, 47, 0>>}

InitVarlen ==
    /\ track = MidiTrack_new
    /\ op = "new"
    /\ saved = NoTrack
    /\ pool = {}
    /\ file = MidiFile_new
    /\ wire = <<>>
    /\ result = NotRun
    /\ quantity \in Quantities
    /\ input = NoInput

WriteVarlen ==
    /\ op = "new"
    /\ wire' = write_varlen(quantity)
    /\ op' = "write_varlen"
    /\ UNCHANGED <<tvars, file, result, quantity>>

ReadVarlen ==
    /\ op = "write_varlen"
    /\ \E follower \in Followers :
           result' = [kind |-> "read_varlen", value |-> read_varlen(wire \o follower)]
    /\ op' = "read_varlen"
    /\ UNCHANGED <<tvars, file, wire, quantity>>

NextVarlen ==
    \/ WriteVarlen
    \/ ReadVarlen

SpecVarlen == InitVarlen /\ [][NextVarlen]_vars

(***************************************************************************)
(* SpecFile: a MidiFile built through add_track and add_event, finalized   *)
(* or not, written by to_bytes, the bytes possibly cut short, and read     *)
(* back by from_bytes.  pool holds the events not yet added.               *)
(***************************************************************************)
MaxTracks == 2       \* most tracks of the file
MaxFileEvents == 3   \* most events added to the file, all tracks together

\* MetaEvent::tempo_from_bpm(120.0): 60_000_000 / 120 microseconds
Tempo120 == 500000

FileEvents ==
    {MidiEvent_new(0, Meta(Tempo(Tempo120))),
     MidiEvent_new(0, NoteOn(0, 60, 100)),
     MidiEvent_new(DefaultTpq, NoteOff(0, 60, 0)),
     MidiEvent_new(0, SysEx(<<2, 1>>)),
     MidiEvent_new(DefaultTpq, TimingClock)}

\* the bytes of f with the body of its last track cut down to its first n
\* bytes, the chunk length saying n
cut_last_track(f, n) ==
    header_chunk(f) \o track_chunks(SubSeq(f.tracks, 1, Len(f.tracks) - 1), 0)
        \o track_chunk(SubSeq(encode_track(f.tracks[Len(f.tracks)]), 1, n))

InitFile ==
    /\ track = MidiTrack_new
    /\ op = "new"
    /\ saved = NoTrack
    /\ pool = FileEvents
    /\ file = MidiFile_new
    /\ wire = <<>>
    /\ result = NotRun
    /\ quantity = 0
    /\ input = NoInput

Building == op \in {"new", "add_track", "add_event", "sort", "finalize"}

FileAddTrack ==
    /\ Building
    /\ Len(file.tracks) < MaxTracks
    /\ file' = add_track(file)
    /\ op' = "add_track"
    /\ UNCHANGED <<tvars, wire, result, quantity>>

FileAddEvent ==
    /\ Building
    /\ Cardinality(FileEvents \ pool) < MaxFileEvents
    /\ \E index \in 0..(Len(file.tracks) - 1), event \in pool :
           /\ file' = track_add_event(file, index, event)
           /\ pool' = pool \ {event}
    /\ op' = "add_event"
    /\ UNCHANGED <<track, saved, wire, result, quantity, input>>

Finalize ==
    /\ Building
    /\ file' = finalize(file)
    /\ op' = "finalize"
    /\ UNCHANGED <<tvars, wire, result, quantity>>

ToBytes ==
    /\ Building
    /\ wire' = to_bytes(file)
    /\ op' = "to_bytes"
    /\ UNCHANGED <<tvars, file, result, quantity>>

\* the input ends early: only the first n bytes reach from_bytes
TruncateInput ==
    /\ op = "to_bytes"
    /\ \E n \in 0..(Len(wire) - 1) : wire' = SubSeq(wire, 1, n)
    /\ op' = "truncate_input"
    /\ UNCHANGED <<tvars, file, result, quantity>>

\* the body of the last track chunk is cut short, the chunk well-formed
TruncateTrack ==
    /\ op = "to_bytes"
    /\ file.tracks # <<>>
    /\ \E n \in 0..(Len(encode_track(file.tracks[Len(file.tracks)])) - 1) :
           wire' = cut_last_track(file, n)
    /\ op' = "truncate_track"
    /\ UNCHANGED <<tvars, file, result, quantity>>

FromBytes ==
    /\ op \in {"to_bytes", "truncate_input", "truncate_track"}
    /\ result' = from_bytes(wire)
    /\ op' = "from_bytes"
    /\ UNCHANGED <<tvars, file, wire, quantity>>

NextFile ==
    \/ FileAddTrack
    \/ FileAddEvent
    \/ Finalize
    \/ ToBytes
    \/ TruncateInput
    \/ TruncateTrack
    \/ FromBytes

SpecFile == InitFile /\ [][NextFile]_vars

(***************************************************************************)
(* SpecParse: track bodies composed event by event, some events written    *)
(* with a status byte, some without (running status), some Meta or SysEx,  *)
(* each after a delta time of 0, then read by from_bytes.  input holds     *)
(* the bodies as sequences of pieces.                                      *)
(***************************************************************************)
MaxBodies == 2       \* most track bodies of the input
MaxPieces == 4       \* most events of the input, all bodies together

\* a channel message written with its status byte
StatusPiece(status, d1, d2) ==
    [kind |-> "status", status |-> status, d1 |-> d1, d2 |-> d2]

\* a channel message written without a status byte
RunningPiece(d1, d2) == [kind |-> "running", d1 |-> d1, d2 |-> d2]

\* FF 2F 00
MetaPiece == [kind |-> "meta"]

\* F0, the length 1, the payload 7E
SysExPiece == [kind |-> "sysex"]

Pieces ==
    {StatusPiece(144, 60, 100), StatusPiece(129, 62, 0), RunningPiece(60, 0),
     RunningPiece(64, 90), MetaPiece, SysExPiece}

piece_bytes(piece) ==
    IF piece.kind = "status" THEN <<0, piece.status, piece.d1, piece.d2>>
    ELSE IF piece.kind = "running" THEN <<0, piece.d1, piece.d2>>
    ELSE IF piece.kind = "meta" THEN <<0, 255, 47, 0>>
    ELSE <<0, 240, 1, 126>>

RECURSIVE body_bytes(_, _)
body_bytes(pieces, i) ==
    IF i >= Len(pieces) THEN <<>>
    ELSE piece_bytes(At(pieces, i)) \o body_bytes(pieces, i + 1)

RECURSIVE body_chunks(_, _)
body_chunks(bodies, i) ==
    IF i >= Len(bodies) THEN <<>>
    ELSE track_chunk(body_bytes(At(bodies, i), 0)) \o body_chunks(bodies, i + 1)

\* a format 1 file of the bodies, as many declared as there are
input_bytes(bodies) ==
    MThd \o u32_to_be_bytes(6) \o u16_to_be_bytes(1)
         \o u16_to_be_bytes(Len(bodies)) \o u16_to_be_bytes(DefaultTpq)
         \o body_chunks(bodies, 0)

RECURSIVE PieceCount(_)
PieceCount(bodies) ==
    IF bodies = <<>> THEN 0
    ELSE Len(bodies[Len(bodies)]) + PieceCount(SubSeq(bodies, 1, Len(bodies) - 1))

InitParse ==
    /\ track = MidiTrack_new
    /\ op = "new"
    /\ saved = NoTrack
    /\ pool = {}
    /\ file = MidiFile_new
    /\ wire = <<>>
    /\ result = NotRun
    /\ quantity = 0
    /\ input = <<>>

NewBody ==
    /\ op \in {"new", "new_body", "append_piece"}
    /\ Len(input) < MaxBodies
    /\ input' = Append(input, <<>>)
    /\ op' = "new_body"
    /\ UNCHANGED <<track, saved, pool, file, wire, result, quantity>>

AppendPiece ==
    /\ op \in {"new_body", "append_piece"}
    /\ PieceCount(input) < MaxPieces
    /\ \E piece \in Pieces :
           input' = [input EXCEPT ![Len(input)] = Append(@, piece)]
    /\ op' = "append_piece"
    /\ UNCHANGED <<track, saved, pool, file, wire, result, quantity>>

ParseInput ==
    /\ op \in {"new", "new_body", "append_piece"}
    /\ wire' = input_bytes(input)
    /\ result' = from_bytes(input_bytes(input))
    /\ op' = "from_bytes"
    /\ UNCHANGED <<tvars, file, quantity>>

NextParse ==
    \/ NewBody
    \/ AppendPiece
    \/ ParseInput

SpecParse == InitParse /\ [][NextParse]_vars

(***************************************************************************)
(* MidiTrack and MidiFile: tempo, time signature, channel extraction,      *)
(* merging and splitting (track.rs, file.rs, message.rs).                  *)
(***************************************************************************)
set_name(t, name) == [t EXCEPT !.name = name]

is_empty(t) == t.events = <<>>

\* MetaEvent::tempo_from_bpm for a whole, positive bpm:
\* (60_000_000.0 / bpm).round() as u32
tempo_from_bpm(bpm) == Tempo((120000000 + bpm) \div (2 * bpm))

\* (denominator as f64).log2() as u8: the floor of the logarithm, 0 for 0
RECURSIVE log2_as_u8(_)
log2_as_u8(n) == IF n < 2 THEN 0 ELSE 1 + log2_as_u8(n \div 2)

\* MetaEvent::time_signature
time_signature(numerator, denominator) ==
    TimeSignature(numerator, log2_as_u8(denominator), 24, 8)

\* MidiTrack::add_tempo and MidiTrack::add_time_signature
add_tempo(t, tick, bpm) == add_event(t, MidiEvent_new(tick, Meta(tempo_from_bpm(bpm))))

add_time_signature(t, tick, numerator, denominator) ==
    add_event(t, MidiEvent_new(tick, Meta(time_signature(numerator, denominator))))

RECURSIVE extract_loop(_, _, _, _)
extract_loop(events, i, ch, t) ==
    IF i >= Len(events) THEN t
    ELSE LET event == At(events, i)
         IN extract_loop(events, i + 1, ch,
                         IF is_meta(event) \/ channel(event) = ch
                         THEN add_event(t, event) ELSE t)

\* MidiTrack::extract_channel: the track it returns
extract_channel(t, ch) == sort(extract_loop(t.events, 0, ch, MidiTrack_new))

\* the Result of a track-indexed mutator with the file it leaves
Returned(f, ret) == [file |-> f, ret |-> ret]

\* the unit value of Ok(())
Unit == <<>>

\* MidiFile::add_note, add_tempo, add_time_signature
\* A mutant of MidiFile::add_note: the error names the number of tracks.
MidiFile_add_note_names_len(f, index, start_tick, duration, ch, k, velocity) ==
    IF index < Len(f.tracks)
    THEN Returned([f EXCEPT !.tracks[index + 1] =
                                add_note(@, start_tick, duration, ch, k, velocity),
                            !.time_map = NoneV],
                  Ok(Unit))
    ELSE Returned(f, Err("TrackOutOfBounds", Len(f.tracks)))

MidiFile_add_note(f, index, start_tick, duration, ch, k, velocity) ==
    IF index < Len(f.tracks)
    THEN Returned([f EXCEPT !.tracks[index + 1] =
                                add_note(@, start_tick, duration, ch, k, velocity),
                            !.time_map = NoneV],
                  Ok(Unit))
    ELSE Returned(f, Err("TrackOutOfBounds", index))

MidiFile_add_tempo(f, index, tick, bpm) ==
    IF index < Len(f.tracks)
    THEN Returned([f EXCEPT !.tracks[index + 1] = add_tempo(@, tick, bpm),
                            !.time_map = NoneV],
                  Ok(Unit))
    ELSE Returned(f, Err("TrackOutOfBounds", index))

MidiFile_add_time_signature(f, index, tick, numerator, denominator) ==
    IF index < Len(f.tracks)
    THEN Returned([f EXCEPT !.tracks[index + 1] =
                                add_time_signature(@, tick, numerator, denominator)],
                  Ok(Unit))
    ELSE Returned(f, Err("TrackOutOfBounds", index))

\* track_mut(index) followed by sort on the track it returns
track_sort(f, index) ==
    [f EXCEPT !.time_map = NoneV, !.tracks[index + 1] = sort(@)]

RECURSIVE merge_all(_, _, _)
merge_all(merged, tracks, i) ==
    IF i >= Len(tracks) THEN merged
    ELSE merge_all(merge(merged, At(tracks, i)), tracks, i + 1)

\* A mutant of merge_tracks: the merged track is not sorted.
merge_tracks_unsorted(f) ==
    IF f.tracks = <<>> THEN f
    ELSE [f EXCEPT !.tracks = <<merge_all(MidiTrack_new, f.tracks, 0)>>,
                   !.format = "SingleTrack",
                   !.time_map = NoneV]

merge_tracks(f) ==
    IF f.tracks = <<>> THEN f
    ELSE [f EXCEPT !.tracks = <<sort(merge_all(MidiTrack_new, f.tracks, 0))>>,
                   !.format = "SingleTrack",
                   !.time_map = NoneV]

\* format!("Channel {}", i) for the 16 channel tracks
ChannelNames ==
    <<"Channel 0", "Channel 1", "Channel 2", "Channel 3", "Channel 4",
      "Channel 5", "Channel 6", "Channel 7", "Channel 8", "Channel 9",
      "Channel 10", "Channel 11", "Channel 12", "Channel 13", "Channel 14",
      "Channel 15">>

\* the first loop of split_tracks_by_channel; the channel of an event is
\* below 16 (channel_tracks[ch as usize] panics otherwise)
RECURSIVE split_loop(_, _, _, _)
split_loop(events, i, channel_tracks, tempo_track) ==
    IF i >= Len(events)
    THEN [channel_tracks |-> channel_tracks, tempo_track |-> tempo_track]
    ELSE LET event == At(events, i)
         IN IF is_meta(event)
            THEN split_loop(events, i + 1, channel_tracks,
                            add_event(tempo_track, event))
            ELSE IF channel(event) # None
            THEN split_loop(events, i + 1,
                            [channel_tracks EXCEPT ![channel(event) + 1] =
                                                       add_event(@, event)],
                            tempo_track)
            ELSE split_loop(events, i + 1, channel_tracks, tempo_track)

\* A mutant of new_tracks_loop: every channel track is kept, empty or not.
RECURSIVE new_tracks_loop_all(_, _, _)
new_tracks_loop_all(channel_tracks, i, new_tracks) ==
    IF i >= Len(channel_tracks) THEN new_tracks
    ELSE new_tracks_loop_all(channel_tracks, i + 1,
                             Append(new_tracks,
                                    set_name(At(channel_tracks, i), ChannelNames[i + 1])))

\* the second loop: the channel tracks that are not empty, named
RECURSIVE new_tracks_loop(_, _, _)
new_tracks_loop(channel_tracks, i, new_tracks) ==
    IF i >= Len(channel_tracks) THEN new_tracks
    ELSE new_tracks_loop(channel_tracks, i + 1,
                         IF ~is_empty(At(channel_tracks, i))
                         THEN Append(new_tracks,
                                     set_name(At(channel_tracks, i), ChannelNames[i + 1]))
                         ELSE new_tracks)

split_tracks_by_channel(f) ==
    IF f.tracks = <<>> THEN f
    ELSE LET split == split_loop(At(f.tracks, 0).events, 0,
                                 [i \in 1..16 |-> MidiTrack_new],
                                 MidiTrack_with_name("Tempo"))
         IN [f EXCEPT !.tracks = new_tracks_loop(split.channel_tracks, 0,
                                                 <<split.tempo_track>>),
                      !.format = "MultiTrack",
                      !.time_map = NoneV]

(***************************************************************************)
(* MidiFile: the time map and the conversions between ticks and seconds    *)
(* (file.rs).  An f64 number of seconds is held exactly, as its count of   *)
(* units of 1 / (1_000_000 * ticks_per_quarter) second: a tick lasts as    *)
(* many units as the tempo has microseconds per quarter note.              *)
(***************************************************************************)
\* the default tempo, 500_000 microseconds per quarter note (120 BPM)
DefaultTempo == 500000

\* the tempo events of a buffer from index i on, as <<tick, us>>
RECURSIVE track_tempo_events(_, _)
track_tempo_events(events, i) ==
    IF i >= Len(events) THEN <<>>
    ELSE LET event == At(events, i)
         IN (IF is_meta(event) /\ event.message.meta.kind = "Tempo"
             THEN <<<<event.tick, event.message.meta.us>>>> ELSE <<>>)
            \o track_tempo_events(events, i + 1)

RECURSIVE collect_tempo_events(_, _)
collect_tempo_events(tracks, i) ==
    IF i >= Len(tracks) THEN <<>>
    ELSE track_tempo_events(At(tracks, i).events, 0)
             \o collect_tempo_events(tracks, i + 1)

\* tempo_events.sort_by_key(|(tick, _)| *tick): stable, by tick alone
RECURSIVE sort_by_tick(_)
sort_by_tick(pairs) ==
    IF pairs = <<>> THEN <<>>
    ELSE LET sorted_front == sort_by_tick(SubSeq(pairs, 1, Len(pairs) - 1))
             last_pair == pairs[Len(pairs)]
             stay == {i \in 1..Len(sorted_front) : sorted_front[i][1] <= last_pair[1]}
             n == Cardinality(stay)
         IN SubSeq(sorted_front, 1, n) \o <<last_pair>>
                \o SubSeq(sorted_front, n + 1, Len(sorted_front))

\* TimeMap::new: the points (tick, seconds at that tick, tempo)
RECURSIVE time_map_points(_, _, _, _, _)
time_map_points(tempo_events, i, current_seconds, prev_tick, prev_tempo) ==
    IF i >= Len(tempo_events) THEN <<>>
    ELSE LET tick == At(tempo_events, i)[1]
             tempo == At(tempo_events, i)[2]
             seconds == current_seconds + u64_sub(tick, prev_tick) * prev_tempo
         IN <<<<tick, seconds, tempo>>>>
                \o time_map_points(tempo_events, i + 1, seconds, tick, tempo)

\* a TimeMap is the tuple <<points, ticks_per_quarter>>
TimeMap_new(tempo_events, ticks_per_quarter) ==
    <<time_map_points(tempo_events, 0, 0, 0, DefaultTempo), ticks_per_quarter>>

\* A mutant of build_time_map: it stores the time map it has built.
build_time_map_stored(f) ==
    IF f.time_map # NoneV THEN f
    ELSE LET collected == sort_by_tick(collect_tempo_events(f.tracks, 0))
             tempo_events == IF collected = <<>> THEN <<<<0, DefaultTempo>>>>
                             ELSE collected
         IN [f EXCEPT !.time_map = TimeMap_new(tempo_events, f.ticks_per_quarter)]

\* MidiFile::build_time_map: the tempo events are collected, sorted and
\* dropped; nothing is stored through &self
build_time_map(f) ==
    IF f.time_map # NoneV THEN f
    ELSE LET collected == sort_by_tick(collect_tempo_events(f.tracks, 0))
             tempo_events == IF collected = <<>> THEN <<<<0, DefaultTempo>>>>
                             ELSE collected
         IN f

\* the loop of TimeMap::ticks_to_seconds and TimeMap::seconds_to_ticks: the
\* last point before the first one whose field `by` is above the bound
RECURSIVE region(_, _, _, _, _)
region(points, i, by, bound, base) ==
    IF i >= Len(points) \/ At(points, i)[by] > bound THEN base
    ELSE region(points, i + 1, by, bound, At(points, i))

TimeMap_ticks_to_seconds(time_map, ticks) ==
    IF time_map[1] = <<>> THEN ticks * DefaultTempo
    ELSE LET base == region(time_map[1], 0, 1, ticks, <<0, 0, DefaultTempo>>)
         IN base[2] + u64_sub(ticks, base[1]) * base[3]

\* (seconds_delta * ticks_per_second) as u64: the cast cuts the fraction and
\* takes a negative number to 0
TimeMap_seconds_to_ticks(time_map, seconds) ==
    IF time_map[1] = <<>>
    THEN IF seconds < 0 THEN 0 ELSE seconds \div DefaultTempo
    ELSE LET base == region(time_map[1], 0, 2, seconds, <<0, 0, DefaultTempo>>)
             seconds_delta == seconds - base[2]
         IN base[1] + (IF seconds_delta < 0 THEN 0 ELSE seconds_delta \div base[3])

\* MidiFile::ticks_to_seconds and MidiFile::seconds_to_ticks
ticks_to_seconds(f, ticks) ==
    LET built == build_time_map(f)
    IN IF built.time_map # NoneV
       THEN TimeMap_ticks_to_seconds(built.time_map, ticks)
       ELSE ticks * DefaultTempo

seconds_to_ticks(f, seconds) ==
    LET built == build_time_map(f)
    IN IF built.time_map # NoneV
       THEN TimeMap_seconds_to_ticks(built.time_map, seconds)
       ELSE IF seconds < 0 THEN 0 ELSE seconds \div DefaultTempo

set_seconds(event, seconds) == [event EXCEPT !.seconds = seconds]

\* MidiFile::update_seconds
update_seconds(f) ==
    LET built == build_time_map(f)
    IN IF built.time_map # NoneV
       THEN [built EXCEPT !.tracks =
                [i \in 1..Len(built.tracks) |->
                    [events_mut(built.tracks[i]) EXCEPT !.events =
                        [j \in 1..Len(built.tracks[i].events) |->
                            set_seconds(built.tracks[i].events[j],
                                        TimeMap_ticks_to_seconds(
                                            built.time_map,
                                            built.tracks[i].events[j].tick))]]]]
       ELSE built

\* MidiFile::total_ticks
total_ticks(f) ==
    IF f.tracks = <<>> THEN 0
    ELSE LET ticks == {last_tick(f.tracks[i]) : i \in 1..Len(f.tracks)}
         IN CHOOSE m \in ticks : \A n \in ticks : n <= m


(***************************************************************************)
(* MidiToScore::convert_track (translate.rs).  A Part is [name, measures], *)
(* a Measure [number, elements] with the elements in the order they were   *)
(* inserted, an element [offset, pitch, quarter_length, velocity]; a       *)
(* Fraction is the pair <<numerator, denominator>> in lowest terms.        *)
(***************************************************************************)
event_velocity(event) ==
    IF event.message.type \in {"NoteOn", "NoteOff"} THEN event.message.velocity
    ELSE None

tick_duration(event, events) ==
    IF event.linked_event = None \/ event.linked_event >= Len(events) THEN None
    ELSE LET linked == At(events, event.linked_event)
         IN IF linked.tick > event.tick THEN linked.tick - event.tick ELSE 0

RECURSIVE Gcd(_, _)
Gcd(a, b) == IF b = 0 THEN a ELSE Gcd(b, a % b)

\* Ratio::new(numer, denom) of non-negative numbers; it panics when denom is 0
Fraction_new(numer, denom) ==
    <<numer \div Gcd(numer, denom), denom \div Gcd(numer, denom)>>

\* (start, duration, key, velocity) of every note-on that has all three
RECURSIVE collect_notes(_, _)
collect_notes(events, i) ==
    IF i >= Len(events) THEN <<>>
    ELSE LET event == At(events, i)
         IN (IF /\ is_note_on(event)
                /\ key(event) # None
                /\ event_velocity(event) # None
                /\ tick_duration(event, events) # None
             THEN <<<<event.tick, tick_duration(event, events), key(event),
                      event_velocity(event)>>>>
             ELSE <<>>)
            \o collect_notes(events, i + 1)

Measure_new(number) == [number |-> number, elements |-> <<>>]

\* the loop over the notes with its inner while: a step either closes the
\* current measure or inserts the note at i
RECURSIVE group_notes(_, _, _, _, _, _)
group_notes(notes, i, measures, current_measure, measure_start_tick, tpq) ==
    LET ticks_per_measure == tpq * 4
    IN IF i >= Len(notes) THEN Append(measures, current_measure)
       ELSE LET start == At(notes, i)[1]
            IN IF start >= measure_start_tick + ticks_per_measure
               THEN group_notes(notes, i, Append(measures, current_measure),
                                Measure_new(current_measure.number + 1),
                                measure_start_tick + ticks_per_measure, tpq)
               ELSE LET note == [offset |-> Fraction_new(start - measure_start_tick, tpq),
                                 pitch |-> At(notes, i)[3],
                                 quarter_length |-> Fraction_new(At(notes, i)[2], tpq),
                                 velocity |-> At(notes, i)[4]]
                    IN group_notes(notes, i + 1, measures,
                                   [current_measure EXCEPT !.elements = Append(@, note)],
                                   measure_start_tick, tpq)

convert_track(t, tpq) ==
    LET notes == sort_by_tick(collect_notes(t.events, 0))
    IN [name |-> t.name,
        measures |-> group_notes(notes, 0, <<>>, Measure_new(1), 0, tpq)]


(***************************************************************************)
(* SpecEdit: a MidiFile built through add_track, add_event, sort and       *)
(* finalize, then edited by one of merge_tracks, split_tracks_by_channel,  *)
(* add_note, add_tempo, add_time_signature, or written by to_bytes.  pool  *)
(* holds the events not yet added; result holds what the last              *)
(* track-indexed mutator returned.                                         *)
(***************************************************************************)
MaxEditEvents == 3   \* most events added to the file, all tracks together

EditEvents ==
    {MidiEvent_new(0, Meta(Tempo(Tempo120))),
     MidiEvent_new(0, NoteOn(0, 60, 100)),
     MidiEvent_new(0, NoteOn(1, 62, 100)),
     MidiEvent_new(0, NoteOff(1, 62, 0)),
     MidiEvent_new(DefaultTpq, NoteOff(0, 60, 0)),
     MidiEvent_new(0, SysEx(<<2, 1>>))}

InitEdit ==
    /\ track = MidiTrack_new
    /\ op = "new"
    /\ saved = NoTrack
    /\ pool = EditEvents
    /\ file = MidiFile_new
    /\ wire = <<>>
    /\ result = NotRun
    /\ quantity = 0
    /\ input = NoInput

\* the file is still being put together: nothing but add_track, add_event and
\* sort has acted on it
Editing == op \in {"new", "add_track", "add_event", "sort"}

EditAddEvent ==
    /\ Editing
    /\ Cardinality(EditEvents \ pool) < MaxEditEvents
    /\ \E index \in 0..(Len(file.tracks) - 1), event \in pool :
           /\ file' = track_add_event(file, index, event)
           /\ pool' = pool \ {event}
    /\ op' = "add_event"
    /\ UNCHANGED <<track, saved, wire, result, quantity, input>>

SortTrack ==
    /\ Editing
    /\ \E index \in 0..(Len(file.tracks) - 1) : file' = track_sort(file, index)
    /\ op' = "sort"
    /\ UNCHANGED <<tvars, wire, result, quantity>>

MergeTracks ==
    /\ Editing
    /\ file' = merge_tracks(file)
    /\ op' = "merge_tracks"
    /\ UNCHANGED <<tvars, wire, result, quantity>>

SplitTracksByChannel ==
    /\ Editing
    /\ file' = split_tracks_by_channel(file)
    /\ op' = "split_tracks_by_channel"
    /\ UNCHANGED <<tvars, wire, result, quantity>>

\* a track index of the file, or the first one past its tracks
\* the track indexes passed: the valid ones and some past the last track;
\* input holds the index passed
TrackIndexes == 0..(MaxTracks + 1)

\* the start ticks add_note is called with; the duration is DefaultTpq
NoteStarts == {0, DefaultTpq}

FileAddNote ==
    /\ Editing
    /\ \E index \in TrackIndexes, start_tick \in NoteStarts :
           LET returned == MidiFile_add_note(file, index, start_tick, DefaultTpq,
                                             0, 64, 100)
           IN /\ file' = returned.file
              /\ result' = returned.ret
              /\ input' = index
    /\ op' = "add_note"
    /\ UNCHANGED <<track, saved, pool, wire, quantity>>

FileAddTempo ==
    /\ Editing
    /\ \E index \in TrackIndexes :
           LET returned == MidiFile_add_tempo(file, index, DefaultTpq, 90)
           IN /\ file' = returned.file
              /\ result' = returned.ret
              /\ input' = index
    /\ op' = "add_tempo"
    /\ UNCHANGED <<track, saved, pool, wire, quantity>>

FileAddTimeSignature ==
    /\ Editing
    /\ \E index \in TrackIndexes :
           LET returned == MidiFile_add_time_signature(file, index, 0, 6, 8)
           IN /\ file' = returned.file
              /\ result' = returned.ret
              /\ input' = index
    /\ op' = "add_time_signature"
    /\ UNCHANGED <<track, saved, pool, wire, quantity>>

NextEdit ==
    \/ FileAddTrack
    \/ EditAddEvent
    \/ SortTrack
    \/ Finalize
    \/ MergeTracks
    \/ SplitTracksByChannel
    \/ FileAddNote
    \/ FileAddTempo
    \/ FileAddTimeSignature
    \/ ToBytes

SpecEdit == InitEdit /\ [][NextEdit]_vars

(***************************************************************************)
(* SpecCodec: one MidiMessage written by MidiMessage::to_bytes and read    *)
(* back by MidiMessage::from_bytes; a Meta message's event also written by *)
(* MetaEvent::to_bytes and, without the leading 0xFF, read back by         *)
(* MetaEvent::from_bytes.  input holds the message, wire the bytes, result *)
(* what from_bytes returned.                                               *)
(***************************************************************************)
MaxPayload == 3   \* longest SysEx, SequencerSpecific and Unknown payload

\* a data byte, the SysEx end marker 0xF7, and a byte with its top bit set
PayloadBytes == {1, 247, 128}

Payloads == UNION {[1..n -> PayloadBytes] : n \in 0..MaxPayload}

\* channel is a u8: the sixteen MIDI channels and a value past them
CodecChannels == {0, 15, 16}

\* u16 values around the 14-bit and 15-bit boundaries
WideValues == {0, 8192, 16383, 16384, 32767, 32768, 65535}

\* "", "Te" and "e" with an acute accent (U+00E9)
CodecStrings == {<<>>, <<84, 101>>, <<233>>}

\* type bytes of MetaEvent::Unknown: ones from_bytes knows, ones it does not,
\* and ones with the top bit set
UnknownTypes == {0, 10, 32, 47, 81, 89, 96, 127, 128, 255}

CodecMetas ==
    {SequenceNumber(n) : n \in {0, 258, 65535}}
        \cup {TextEvent(TextKinds[i], s) : i \in 1..9, s \in CodecStrings}
        \cup {ChannelPrefix(15), MidiPort(200), EndOfTrack,
              SmpteOffset(1, 2, 3, 4, 5), time_signature(6, 8)}
        \cup {Tempo(us) : us \in {0, Tempo120, 16777215, 16777216}}
        \cup {KeySignature(sharps, minor) : sharps \in {-7, 0, 7}, minor \in BOOLEAN}
        \cup {SequencerSpecific(payload) : payload \in Payloads}
        \cup {Unknown(type_, payload) : type_ \in UnknownTypes, payload \in Payloads}

CodecMessages ==
    UNION {{NoteOff(ch, 60, 64), NoteOn(ch, 60, 0), NoteOn(ch, 200, 100),
            PolyPressure(ch, 60, 10), ControlChange(ch, 7, 127),
            ProgramChange(ch, 5), ChannelPressure(ch, 90)} : ch \in CodecChannels}
        \cup {PitchBend(ch, bend) : ch \in CodecChannels, bend \in WideValues}
        \cup {SysEx(payload) : payload \in Payloads}
        \cup {SongPosition(beats) : beats \in WideValues}
        \cup {MtcQuarterFrame(113), SongSelect(3), TuneRequest, TimingClock, Start,
              Continue, Stop, ActiveSensing, SystemReset}
        \cup {Meta(meta) : meta \in CodecMetas}

InitCodec ==
    /\ track = MidiTrack_new
    /\ op = "new"
    /\ saved = NoTrack
    /\ pool = {}
    /\ file = MidiFile_new
    /\ wire = <<>>
    /\ result = NotRun
    /\ quantity = 0
    /\ input \in CodecMessages

MessageToBytes ==
    /\ op = "new"
    /\ wire' = message_to_bytes(input)
    /\ op' = "to_bytes"
    /\ UNCHANGED <<tvars, file, result, quantity>>

MessageFromBytes ==
    /\ op = "to_bytes"
    /\ result' = message_from_bytes(wire)
    /\ op' = "from_bytes"
    /\ UNCHANGED <<tvars, file, wire, quantity>>

\* &bytes[1..] of MetaEvent::to_bytes, as test_meta_event_roundtrip passes it
MetaToBytes ==
    /\ op = "new"
    /\ message_is_meta(input)
    /\ wire' = Tail(MetaEvent_to_bytes(input.meta))
    /\ op' = "meta_to_bytes"
    /\ UNCHANGED <<tvars, file, result, quantity>>

MetaFromBytes ==
    /\ op = "meta_to_bytes"
    /\ result' = MetaEvent_from_bytes(wire)
    /\ op' = "meta_from_bytes"
    /\ UNCHANGED <<tvars, file, wire, quantity>>

NextCodec == MessageToBytes \/ MessageFromBytes \/ MetaToBytes \/ MetaFromBytes

SpecCodec == InitCodec /\ [][NextCodec]_vars

(***************************************************************************)
(* SpecExtract: one MidiTrack built by add_event and sort, then read by    *)
(* extract_channel.  input holds the channel passed, result the track      *)
(* returned.                                                               *)
(***************************************************************************)
ExtractEvents ==
    {MidiEvent_new(0, Meta(Tempo(Tempo120))),
     MidiEvent_new(MaxTick, Meta(EndOfTrack)),
     MidiEvent_new(0, NoteOn(0, 60, 100)),
     MidiEvent_new(MaxTick, NoteOff(0, 60, 0)),
     MidiEvent_new(0, ControlChange(1, 7, 100)),
     MidiEvent_new(0, SysEx(<<1>>))}

\* the channels asked for: two with events and one without
ExtractChannels == {0, 1, 2}

InitExtract ==
    /\ track = MidiTrack_new
    /\ op = "new"
    /\ saved = NoTrack
    /\ pool = ExtractEvents
    /\ file = MidiFile_new
    /\ wire = <<>>
    /\ result = NotRun
    /\ quantity = 0
    /\ input = NoInput

ExtractAddEvent ==
    /\ op \in {"new", "add_event", "sort"}
    /\ Len(track.events) < MaxLen
    /\ \E event \in pool :
           /\ track' = add_event(track, event)
           /\ pool' = pool \ {event}
    /\ op' = "add_event"
    /\ UNCHANGED <<saved, input, fvars>>

ExtractSort ==
    /\ op \in {"new", "add_event", "sort"}
    /\ track' = sort(track)
    /\ op' = "sort"
    /\ UNCHANGED <<saved, pool, input, fvars>>

\* extract_channel takes &self: the source track is not written
ExtractChannel ==
    /\ op \in {"new", "add_event", "sort"}
    /\ \E ch \in ExtractChannels :
           /\ input' = ch
           /\ result' = extract_channel(track, ch)
    /\ op' = "extract_channel"
    /\ UNCHANGED <<track, saved, pool, file, wire, quantity>>

NextExtract == ExtractAddEvent \/ ExtractSort \/ ExtractChannel

SpecExtract == InitExtract /\ [][NextExtract]_vars

(***************************************************************************)
(* SpecTime: a MidiFile is built and edited as in SpecEdit, written and    *)
(* read back, and then asked for times: ticks_to_seconds, seconds_to_ticks,*)
(* update_seconds and total_ticks.  input holds the argument of the lookup *)
(* and result what it returned.                                            *)
(***************************************************************************)
MaxTimeEvents == 3   \* most events added to the file, all tracks together

TimeEvents ==
    {MidiEvent_new(0, Meta(Tempo(Tempo120))),
     MidiEvent_new(DefaultTpq, Meta(Tempo(Tempo120 \div 2))),
     MidiEvent_new(0, NoteOn(0, 60, 100)),
     MidiEvent_new(2 * DefaultTpq, NoteOff(0, 60, 0))}

\* the ticks asked for
TimeTicks == {0, DefaultTpq, 2 * DefaultTpq, 3 * DefaultTpq}

InitTime ==
    /\ track = MidiTrack_new
    /\ op = "new"
    /\ saved = NoTrack
    /\ pool = TimeEvents
    /\ file = MidiFile_new
    /\ wire = <<>>
    /\ result = NotRun
    /\ quantity = 0
    /\ input = NoInput

TimeAddEvent ==
    /\ Editing
    /\ Cardinality(TimeEvents \ pool) < MaxTimeEvents
    /\ \E index \in 0..(Len(file.tracks) - 1), event \in pool :
           /\ file' = track_add_event(file, index, event)
           /\ pool' = pool \ {event}
    /\ op' = "add_event"
    /\ UNCHANGED <<track, saved, wire, result, quantity, input>>

\* MidiFile::from_bytes(&bytes) takes the place of the file when it is Ok
TimeFromBytes ==
    /\ op = "to_bytes"
    /\ result' = from_bytes(wire)
    /\ file' = IF result'.kind = "Ok" THEN result'.value ELSE file
    /\ op' = "from_bytes"
    /\ UNCHANGED <<tvars, wire, quantity>>

\* the file is at rest after a constructor, a mutator or a reader
Settled ==
    op \in {"new", "add_track", "add_event", "sort", "finalize", "merge_tracks",
            "split_tracks_by_channel", "add_note", "add_tempo",
            "add_time_signature", "from_bytes", "update_seconds"}

TicksToSeconds ==
    /\ Settled
    /\ \E ticks \in TimeTicks :
           /\ result' = Ok(ticks_to_seconds(file, ticks))
           /\ input' = ticks
    /\ file' = build_time_map(file)
    /\ op' = "ticks_to_seconds"
    /\ UNCHANGED <<track, saved, pool, wire, quantity>>

\* the seconds just returned are turned back into ticks
SecondsToTicks ==
    /\ op = "ticks_to_seconds"
    /\ result' = Ok(seconds_to_ticks(file, result.value))
    /\ file' = build_time_map(file)
    /\ op' = "seconds_to_ticks"
    /\ UNCHANGED <<tvars, wire, quantity>>

UpdateSeconds ==
    /\ Settled
    /\ op # "update_seconds"
    /\ file' = update_seconds(file)
    /\ op' = "update_seconds"
    /\ UNCHANGED <<tvars, wire, result, quantity>>

TotalTicks ==
    /\ Settled
    /\ result' = Ok(total_ticks(file))
    /\ op' = "total_ticks"
    /\ UNCHANGED <<tvars, file, wire, quantity>>

NextTime ==
    \/ FileAddTrack
    \/ TimeAddEvent
    \/ SortTrack
    \/ Finalize
    \/ MergeTracks
    \/ SplitTracksByChannel
    \/ FileAddNote
    \/ FileAddTempo
    \/ FileAddTimeSignature
    \/ ToBytes
    \/ TimeFromBytes
    \/ TicksToSeconds
    \/ SecondsToTicks
    \/ UpdateSeconds
    \/ TotalTicks

SpecTime == InitTime /\ [][NextTime]_vars


(***************************************************************************)
(* SpecScore: a track is built by add_note and add_event, its notes are    *)
(* linked, and convert_track makes a Part of it.  input holds the ticks    *)
(* per quarter note passed and result the Part.                            *)
(***************************************************************************)
MaxScoreEvents == 4   \* most events of the track

\* start ticks in the first, second and third 4/4 measure of DefaultTpq
ScoreStarts == {0, DefaultTpq \div 2, 4 * DefaultTpq, 9 * DefaultTpq}

ScoreDurations == {DefaultTpq \div 2, 4 * DefaultTpq}

\* events added by add_event: no link is set on them
ScoreEvents ==
    {MidiEvent_new(0, Meta(time_signature(3, 4))),
     MidiEvent_new(DefaultTpq, NoteOn(0, 64, 100)),
     MidiEvent_new(5 * DefaultTpq, NoteOn(0, 60, 100)),
     MidiEvent_new(6 * DefaultTpq, NoteOff(0, 60, 0))}

ScoreTpqs == {DefaultTpq, DefaultTpq \div 5}

InitScore ==
    /\ track = MidiTrack_new
    /\ op = "new"
    /\ saved = NoTrack
    /\ pool = ScoreEvents
    /\ file = MidiFile_new
    /\ wire = <<>>
    /\ result = NotRun
    /\ quantity = 0
    /\ input = NoInput

Scoring == op \in {"new", "add_note", "add_event", "link_note_events"}

ScoreAddNote ==
    /\ Scoring
    /\ Len(track.events) + 2 <= MaxScoreEvents
    /\ \E start_tick \in ScoreStarts, duration \in ScoreDurations :
           track' = add_note(track, start_tick, duration, 0, 60, 100)
    /\ op' = "add_note"
    /\ UNCHANGED <<saved, pool, fvars>>

ScoreAddEvent ==
    /\ Scoring
    /\ Len(track.events) < MaxScoreEvents
    /\ \E event \in pool :
           /\ track' = add_event(track, event)
           /\ pool' = pool \ {event}
    /\ op' = "add_event"
    /\ UNCHANGED <<saved, fvars>>

ScoreLinkNoteEvents ==
    /\ Scoring
    /\ track' = link_note_events(track)
    /\ op' = "link_note_events"
    /\ UNCHANGED <<saved, pool, fvars>>

ConvertTrack ==
    /\ Scoring
    /\ \E tpq \in ScoreTpqs :
           /\ result' = Ok(convert_track(track, tpq))
           /\ input' = tpq
    /\ op' = "convert_track"
    /\ UNCHANGED <<track, saved, pool, file, wire, quantity>>

NextScore == ScoreAddNote \/ ScoreAddEvent \/ ScoreLinkNoteEvents \/ ConvertTrack

SpecScore == InitScore /\ [][NextScore]_vars


(***************************************************************************)
(* Properties of the track.                                                *)
(***************************************************************************)
Linked(events) == {i \in 0..(Len(events) - 1) : At(events, i).linked_event # None}

\* (message, linked_event) of every event, in buffer order
Shape(events) ==
    [i \in 1..Len(events) |->
        <<events[i].message, events[i].linked_event>>]

TicksOf(events) == [i \in 1..Len(events) |-> events[i].tick]

\* C2: in absolute-time mode, whenever is_sorted() is true the buffer is
\* non-decreasing under the event total order (tick, type priority, seq).
C2_SortedFlagMeansOrdered ==
    (is_absolute_time(track) /\ is_sorted(track)) =>
        \A i \in 1..(Len(track.events) - 1) :
            cmp(track.events[i], track.events[i + 1]) # "Greater"

\* C4: every event i with linked_event = Some(j) has j < len, j # i,
\* events[j].linked_event = Some(i), and one of the two is a note-on and the
\* other a note-off.
C4_SymmetricLinks ==
    \A i \in Linked(track.events) :
        LET j == At(track.events, i).linked_event
        IN /\ j < Len(track.events)
           /\ j # i
           /\ At(track.events, j).linked_event = i
           /\ \/ is_note_on(At(track.events, i)) /\ is_note_off(At(track.events, j))
              \/ is_note_off(At(track.events, i)) /\ is_note_on(At(track.events, j))

\* C5: in a track built by add_event calls in any order, after sort() every
\* note-off (NoteOff, or NoteOn of velocity 0) at a tick stands before every
\* note-on of velocity > 0 at that tick.
C5_NoteOffBeforeNoteOn ==
    op = "sort" =>
        \A i \in 1..Len(track.events), j \in 1..Len(track.events) :
            (/\ i < j
             /\ track.events[i].tick = track.events[j].tick
             /\ is_note_off(track.events[j]))
            => ~is_note_on(track.events[i])

SameNote(a, b) == channel(a) = channel(b) /\ key(a) = key(b)

NoteOns(events) == {i \in 0..(Len(events) - 1) : is_note_on(At(events, i))}

NoteOffs(events) == {i \in 0..(Len(events) - 1) : is_note_off(At(events, i))}

\* A note-on at i is pending at position j: it stands before j and no
\* note-off before j is linked to it.
Pending(events, i, j) ==
    /\ i < j
    /\ ~(At(events, i).linked_event # None /\ At(events, i).linked_event < j)

\* C6: after link_note_events() on a track of non-overlapping notes added by
\* add_event in any order, every note-on is linked to exactly one note-off
\* of its (channel, key) and that note-off to it; a linked note-off holds the
\* oldest note-on of its (channel, key) that was pending when it was reached
\* (FIFO); a note-off that found no pending note-on is unlinked; and where a
\* (channel, key) has as many note-offs as note-ons, all of them are linked.
C6_PerfectMatching ==
    op = "link_note_events" =>
        LET events == track.events
            ons == NoteOns(events)
            offs == NoteOffs(events)
        IN /\ \A i \in ons :
                  /\ At(events, i).linked_event \in offs
                  /\ SameNote(At(events, i), At(events, At(events, i).linked_event))
                  /\ At(events, At(events, i).linked_event).linked_event = i
           /\ \A j \in offs :
                  IF At(events, j).linked_event # None
                  THEN /\ At(events, j).linked_event \in ons
                       /\ At(events, At(events, j).linked_event).linked_event = j
                       /\ At(events, j).linked_event < j
                       /\ \A i \in ons :
                              (SameNote(At(events, i), At(events, j))
                               /\ Pending(events, i, j))
                              => At(events, j).linked_event <= i
                  ELSE \A i \in ons :
                           SameNote(At(events, i), At(events, j))
                           => ~Pending(events, i, j)
           /\ \A j \in offs :
                  (Cardinality({i \in ons : SameNote(At(events, i), At(events, j))})
                   = Cardinality({x \in offs : SameNote(At(events, x), At(events, j))}))
                  => At(events, j).linked_event # None

\* Two linked notes of key 60 and a release that found nothing pending.
C6_Witness ==
    /\ op = "link_note_events"
    /\ Cardinality({i \in NoteOns(track.events) :
                       /\ key(At(track.events, i)) = 60
                       /\ At(track.events, i).linked_event # None}) >= 2
    /\ \E j \in NoteOffs(track.events) : At(track.events, j).linked_event = None

\* The buffer of a sorted track: the flag is set, or the events stand in
\* (tick, type priority) order.
SortedInput(t) ==
    \/ is_sorted(t)
    \/ \A i \in 1..(Len(t.events) - 1) :
           \/ t.events[i].tick < t.events[i + 1].tick
           \/ /\ t.events[i].tick = t.events[i + 1].tick
              /\ event_priority(t.events[i].message)
                     <= event_priority(t.events[i + 1].message)

\* C8: on a sorted track with absolute ticks, make_delta_times() leaves each
\* event its tick minus the previous event's tick (the first minus 0) and
\* is_absolute_time() false; make_absolute_times() right after restores
\* every tick and is_absolute_time() true; the event order never changes.
C8_DeltaAbsoluteInverse ==
    (saved # NoTrack /\ SortedInput(saved)) =>
        /\ Shape(track.events) = Shape(saved.events)
        /\ op = "make_delta_times" =>
               /\ ~is_absolute_time(track)
               /\ \A i \in 0..(Len(saved.events) - 1) :
                      At(track.events, i).tick =
                          At(saved.events, i).tick
                          - (IF i = 0 THEN 0 ELSE At(saved.events, i - 1).tick)
        /\ op = "make_absolute_times" =>
               /\ is_absolute_time(track)
               /\ TicksOf(track.events) = TicksOf(saved.events)

\* A round trip over two events whose delta ticks differ from their
\* absolute ticks.
C8_Witness ==
    /\ op = "make_absolute_times"
    /\ saved # NoTrack
    /\ SortedInput(saved)
    /\ Len(saved.events) >= 2
    /\ saved.events[1].tick > 0
    /\ saved.events[2].tick > saved.events[1].tick
    /\ TicksOf(track.events) = TicksOf(saved.events)

(***************************************************************************)
(* Properties of the variable-length quantity codec.                       *)
(***************************************************************************)
\* the number a byte sequence spells, seven bits a byte, first byte highest
RECURSIVE GroupsValue(_)
GroupsValue(s) ==
    IF s = <<>> THEN 0
    ELSE GroupsValue(SubSeq(s, 1, Len(s) - 1)) * 128 + (s[Len(s)] % 128)

\* C9: for every v with 0 <= v < 2^28, write_varlen(v) spells v in groups of
\* seven bits, most significant group first, the top bit set on every byte
\* but the last, and read_varlen of those bytes (whatever follows them)
\* returns v and the number of bytes written; write_varlen(128) is
\* [0x81, 0x00] and read_varlen([0x81, 0x00]) is (128, 2).
C9_VarlenInverse ==
    (op \in {"write_varlen", "read_varlen"} /\ quantity < 268435456) =>
        /\ wire # <<>>
        /\ \A i \in 1..(Len(wire) - 1) : wire[i] \in 128..255
        /\ wire[Len(wire)] \in 0..127
        /\ GroupsValue(wire) = quantity
        /\ quantity = 128 => wire = <<129, 0>>
        /\ op = "read_varlen" => result.value = <<quantity, Len(wire)>>

\* C9 happens: 128 has been written as [0x81, 0x00] and read back as (128, 2),
\* and a four-byte quantity has been read back too.
C9_Witness ==
    /\ op = "read_varlen"
    /\ \/ quantity = 128 /\ wire = <<129, 0>> /\ result.value = <<128, 2>>
       \/ quantity = 2097152 /\ Len(wire) = 4 /\ result.value = <<2097152, 4>>

(***************************************************************************)
(* Properties of the file container.                                       *)
(***************************************************************************)
TickMessages(events) ==
    [i \in 1..Len(events) |-> <<events[i].tick, events[i].message>>]

\* C1: a file built through the public API, finalized, written by to_bytes
\* and read by from_bytes comes back Ok with the same format, the same
\* ticks_per_quarter, the same number of tracks and, track by track after
\* sort() on both sides, the same sequence of (tick, message) pairs.
C1_RoundTrip ==
    (op = "from_bytes" /\ file = finalize(file) /\ wire = to_bytes(file)) =>
        /\ result.kind = "Ok"
        /\ result.value.format = file.format
        /\ result.value.ticks_per_quarter = file.ticks_per_quarter
        /\ Len(result.value.tracks) = Len(file.tracks)
        /\ \A i \in 1..Len(file.tracks) :
               TickMessages(sort(result.value.tracks[i]).events)
                   = TickMessages(sort(file.tracks[i]).events)

\* C3: from_bytes returns Ok only with as many tracks as the header's
\* track-count field declares; an input that ends before that many chunks
\* were read is an error, never an Ok file with fewer tracks.
C3_AllOrNothingParse ==
    (op = "from_bytes" /\ result.kind = "Ok") =>
        Len(result.value.tracks) = read_u16_be(Slice(wire, 10, 12))

\* C7: in every track of a file returned by from_bytes each note-on is
\* linked to its matching note-off, as link_note_events links them (so the
\* NoteOn of Tempo@0, NoteOn@0, NoteOff@480 is linked to the NoteOff).
C7_ParsedNotesLinked ==
    (op = "from_bytes" /\ result.kind = "Ok") =>
        \A i \in 1..Len(result.value.tracks) :
            link_note_events(result.value.tracks[i]) = result.value.tracks[i]

\* the lengths of the body of t at which an event ends
RECURSIVE EventEnds(_, _)
EventEnds(events, k) ==
    IF k = 0 THEN {0}
    ELSE {Len(encode_loop(SubSeq(events, 1, k), 0, 0, <<>>))}
             \cup EventEnds(events, k - 1)

\* the lengths that cut the body of t inside an event
InsideEventCuts(t) ==
    (0..Len(encode_track(t))) \ EventEnds(slice_sort(t.events), Len(t.events))

\* C10: when the body of a track is cut off inside an event (after a delta
\* time, within a channel message, within a meta or SysEx payload),
\* from_bytes returns a MidiError: never Ok, never a panic.
C10_TruncationIsTypedError ==
    (/\ op = "from_bytes"
     /\ file.tracks # <<>>
     /\ \E n \in InsideEventCuts(file.tracks[Len(file.tracks)]) :
            wire = cut_last_track(file, n))
        => result.kind = "Err"

(***************************************************************************)
(* Properties of running status.                                           *)
(***************************************************************************)
\* What a body of pieces says, read from its first piece with no status
\* established: the messages, or ok = FALSE once a piece without a status
\* byte comes while no status is established.  A piece with a status byte
\* establishes it; Meta and SysEx pieces cancel it when cancels is TRUE.
RECURSIVE Said(_, _, _, _, _)
Said(pieces, i, current, messages, cancels) ==
    IF i > Len(pieces) THEN [ok |-> TRUE, messages |-> messages]
    ELSE LET piece == pieces[i] IN
         IF piece.kind = "status"
         THEN Said(pieces, i + 1, piece.status,
                   Append(messages, channel_message(piece.status - (piece.status % 16),
                                                    piece.status % 16,
                                                    <<piece.d1, piece.d2>>, 0)),
                   cancels)
         ELSE IF piece.kind = "running"
         THEN IF current = None THEN [ok |-> FALSE, messages |-> messages]
              ELSE Said(pieces, i + 1, current,
                        Append(messages, channel_message(current - (current % 16),
                                                         current % 16,
                                                         <<piece.d1, piece.d2>>, 0)),
                        cancels)
         ELSE IF piece.kind = "meta"
         THEN Said(pieces, i + 1, IF cancels THEN None ELSE current,
                   Append(messages, Meta(EndOfTrack)), cancels)
         ELSE Said(pieces, i + 1, IF cancels THEN None ELSE current,
                   Append(messages, SysEx(<<126>>)), cancels)

MessagesOf(events) == [i \in 1..Len(events) |-> events[i].message]

\* from_bytes returned what the bodies say: InvalidRunningStatus when some
\* body has a piece without a status byte where none is established, and
\* otherwise one track per body with the messages the body says
ReadAsSaid(cancels) ==
    IF \E b \in 1..Len(input) : ~Said(input[b], 1, None, <<>>, cancels).ok
    THEN result = Err("InvalidRunningStatus", None)
    ELSE /\ result.kind = "Ok"
         /\ Len(result.value.tracks) = Len(input)
         /\ \A b \in 1..Len(input) :
                MessagesOf(result.value.tracks[b].events)
                    = Said(input[b], 1, None, <<>>, cancels).messages

\* C11 as stated: an event without a status byte is decoded with the status
\* most recently established in the same track body, decoding fails with
\* InvalidRunningStatus only when no status byte came earlier in that body,
\* and no status is carried over from a previous body.
C11_RunningStatusNeverCancelled == op = "from_bytes" => ReadAsSaid(FALSE)

\* C11 amended: as stated, except that a Meta or SysEx event cancels the
\* running status: an event without a status byte fails with
\* InvalidRunningStatus when no status byte came since the start of the body
\* or since the last Meta or SysEx event of the body.
C11_RunningStatus == op = "from_bytes" => ReadAsSaid(TRUE)

\* C11 happens: a second body that opens without a status byte fails although
\* the first established one, a status cancelled by a Meta or SysEx event
\* fails, and a status carried over two events decodes both.
C11_Witness ==
    /\ op = "from_bytes"
    /\ \/ /\ Len(input) = 2
          /\ input[1] = <<StatusPiece(144, 60, 100)>>
          /\ input[2] = <<RunningPiece(60, 0)>>
          /\ result = Err("InvalidRunningStatus", None)
       \/ /\ input = <<<<StatusPiece(144, 60, 100), MetaPiece, RunningPiece(60, 0)>>>>
          /\ result = Err("InvalidRunningStatus", None)
       \/ /\ input = <<<<StatusPiece(144, 60, 100), RunningPiece(60, 0),
                        RunningPiece(64, 90)>>>>
          /\ result.kind = "Ok"
          /\ MessagesOf(result.value.tracks[1].events)
                 = <<NoteOn(0, 60, 100), NoteOn(0, 60, 0), NoteOn(0, 64, 90)>>

(***************************************************************************)
(* Properties of the sorted flag.                                          *)
(***************************************************************************)
Mutators ==
    {"add_event", "insert_event", "remove_event", "add_note", "merge",
     "events_mut", "clear"}

\* C12: add_event, insert_event, remove_event, add_note, merge, events_mut
\* and clear each leave is_sorted() false, and only sort() takes is_sorted()
\* from false to true.
C12_SortedFlagDiscipline ==
    [][/\ op' \in Mutators => ~is_sorted(track')
       /\ (~is_sorted(track) /\ is_sorted(track')) => op' = "sort"]_vars

(***************************************************************************)
(* What to_bytes wrote, read back chunk by chunk and event by event.       *)
(***************************************************************************)
\* the bodies of the track chunks of a written file, in file order
RECURSIVE BodiesFrom(_, _)
BodiesFrom(bytes, pos) ==
    IF pos + 8 > Len(bytes) THEN <<>>
    ELSE LET length == read_u32_be(Slice(bytes, pos + 4, pos + 8))
         IN <<Slice(bytes, pos + 8, pos + 8 + length)>>
                \o BodiesFrom(bytes, pos + 8 + length)

Bodies(bytes) == BodiesFrom(bytes, 14)

\* the events of one body in written order: each delta, the tick the deltas
\* add up to, and the message; a body that cannot be read ends with Panic
RECURSIVE WrittenFrom(_, _, _)
WrittenFrom(body, pos, tick) ==
    IF pos >= Len(body) THEN <<>>
    ELSE LET delta == read_varlen(Slice(body, pos, Len(body)))
         IN IF delta = NoneV THEN <<Panic>>
            ELSE LET read == message_from_bytes(Slice(body, pos + delta[2], Len(body)))
                 IN IF read = NoneV THEN <<Panic>>
                    ELSE <<[delta |-> delta[1], tick |-> tick + delta[1],
                            message |-> read[1]]>>
                         \o WrittenFrom(body, pos + delta[2] + read[2],
                                        tick + delta[1])

Written(body) == WrittenFrom(body, 0, 0)

\* how many times each element occurs in a sequence
Occurrences(s) ==
    [x \in Range(s) |-> Cardinality({i \in 1..Len(s) : s[i] = x})]

\* the three classes the written order ranks: Meta, then NoteOff and NoteOn
\* with velocity 0, then NoteOn with a positive velocity; None for the rest
WrittenClass(msg) ==
    IF msg.type = "Meta" THEN 0
    ELSE IF msg.type = "NoteOff" THEN 1
    ELSE IF msg.type = "NoteOn" THEN (IF msg.velocity = 0 THEN 1 ELSE 2)
    ELSE None

ClassOrdered(written) ==
    \A i, j \in 1..Len(written) :
        (/\ i < j
         /\ written[i].tick = written[j].tick
         /\ WrittenClass(written[i].message) # None
         /\ WrittenClass(written[j].message) # None)
            => WrittenClass(written[i].message) <= WrittenClass(written[j].message)

\* every delta is the event's tick less the tick of the event written before
DeltasAreDifferences(written) ==
    \A i \in 1..Len(written) :
        /\ written[i].delta >= 0
        /\ written[i].delta
               = written[i].tick - (IF i = 1 THEN 0 ELSE written[i - 1].tick)

\* C13: in every track body to_bytes writes, among events of one tick Meta
\* events come first, then NoteOff and NoteOn with velocity 0, then NoteOn
\* with a positive velocity, whatever the order of the track's buffer; the
\* body holds the track's events, each with the tick it has in the track,
\* and each delta is that tick less the tick of the event written before it,
\* never negative.
C13_SerializedOrder ==
    op = "to_bytes" =>
        /\ Len(Bodies(wire)) = Len(file.tracks)
        /\ \A i \in 1..Len(file.tracks) :
               LET written == Written(Bodies(wire)[i])
               IN /\ Panic \notin Range(written)
                  /\ Occurrences(TickMessages(written))
                         = Occurrences(TickMessages(file.tracks[i].events))
                  /\ ClassOrdered(written)
                  /\ DeltasAreDifferences(written)

\* a file was written whose track holds, at one tick, a NoteOn with positive
\* velocity in front of a Meta event or a NoteOff, with the flag still set
C13_Witness ==
    /\ op = "to_bytes"
    /\ \E i \in 1..Len(file.tracks) :
           LET events == file.tracks[i].events
           IN /\ is_sorted(file.tracks[i])
              /\ \E a, b \in 1..Len(events) :
                     /\ a < b
                     /\ events[a].tick = events[b].tick
                     /\ WrittenClass(events[a].message) = 2
                     /\ WrittenClass(events[b].message) \in {0, 1}
              /\ \E c \in 1..Len(events) : events[c].tick > 0

\* the events of `after` with one tick and one type priority are, in the
\* same order, the events of `before` with that tick and priority
TiesKeepOrder(before, after) ==
    \A e \in Range(after) :
        LET Tied(x) == /\ x.tick = e.tick
                       /\ event_priority(x.message) = event_priority(e.message)
        IN TickMessages(SelectSeq(after, Tied)) = TickMessages(SelectSeq(before, Tied))

\* C14: whenever events are sorted, by MidiTrack::sort and by encode_track
\* when to_bytes writes a track, two events with equal tick and equal type
\* priority keep the relative order they had in the track's buffer just
\* before, whatever add_event and sort calls came earlier.
C14_TieStability ==
    [][/\ op' = "sort" =>
              \A i \in 1..Len(file.tracks) :
                  TiesKeepOrder(file.tracks[i].events, file'.tracks[i].events)
       /\ op' = "to_bytes" =>
              \A i \in 1..Len(file.tracks) :
                  TiesKeepOrder(file.tracks[i].events, Written(Bodies(wire')[i]))]_vars

(***************************************************************************)
(* The messages the wire format can hold.                                  *)
(***************************************************************************)
\* MetaEvent::from_bytes builds another variant from this type byte when the
\* payload has n bytes
Recognised(type_, n) ==
    \/ type_ \in (1..9) \cup {47, 127}
    \/ type_ = 0 /\ n >= 2
    \/ type_ \in {32, 33} /\ n >= 1
    \/ type_ = 81 /\ n >= 3
    \/ type_ = 84 /\ n >= 5
    \/ type_ = 88 /\ n >= 4
    \/ type_ = 89 /\ n >= 2

\* a Tempo fits three bytes; an Unknown event carries a type byte that
\* from_bytes gives to no other variant
MetaFits(meta) ==
    /\ meta.kind = "Tempo" => meta.us < 16777216
    /\ meta.kind = "Unknown" => ~Recognised(meta.type_, Len(meta.data))

\* the channel fits the status nibble, a PitchBend or SongPosition value its
\* two bytes, a SysEx payload holds no end marker, and a Meta event fits
\* with a type byte below 0x80
MessageFits(msg) ==
    /\ msg.type \in ChannelTypes => msg.channel <= 15
    /\ msg.type = "PitchBend" => msg.value < 32768
    /\ msg.type = "SongPosition" => msg.pos < 32768
    /\ msg.type = "SysEx" => 247 \notin Range(msg.data)
    /\ msg.type = "Meta" => MetaFits(msg.meta) /\ type_byte(msg.meta) < 128

\* C15 as stated: for every MidiMessage of every variant, Unknown meta
\* events with any type byte and payload among them, MidiMessage::from_bytes
\* of to_bytes returns the message with the length of its bytes, and
\* MetaEvent::from_bytes of MetaEvent::to_bytes without the leading 0xFF
\* returns the same meta event.
C15_CodecInverseEveryMessage ==
    /\ op = "from_bytes" => result = <<input, Len(wire)>>
    /\ op = "meta_from_bytes" => (result # NoneV /\ result[1] = input.meta)

\* C15: for every MidiMessage that fits the wire format, from_bytes of
\* to_bytes returns the message with the length of its bytes; for every
\* MetaEvent that fits, MetaEvent::from_bytes of to_bytes without the leading
\* 0xFF returns the same meta event, also with a type byte from 0x80 up.
C15_CodecInverse ==
    /\ (op = "from_bytes" /\ MessageFits(input)) => result = <<input, Len(wire)>>
    /\ (op = "meta_from_bytes" /\ MetaFits(input.meta))
           => (result # NoneV /\ result[1] = input.meta)

\* an Unknown meta event with a payload came back as it was, from both
\* readers; so did a PitchBend above the 14-bit range
C15_Witness ==
    \/ /\ op = "from_bytes"
       /\ message_is_meta(input)
       /\ input.meta.kind = "Unknown"
       /\ Len(input.meta.data) = MaxPayload
       /\ result = <<input, Len(wire)>>
    \/ /\ op = "meta_from_bytes"
       /\ input.meta.kind = "Unknown"
       /\ input.meta.type_ >= 128
       /\ input.meta.data # <<>>
       /\ result[1] = input.meta

\* the events of all tracks of a file, track after track
RECURSIVE AllEvents(_, _)
AllEvents(tracks, i) ==
    IF i >= Len(tracks) THEN <<>>
    ELSE At(tracks, i).events \o AllEvents(tracks, i + 1)

\* the buffer stands in the order of (tick, type priority)
OrderedByTickPriority(events) ==
    \A i, j \in 1..Len(events) :
        i < j => \/ events[i].tick < events[j].tick
                 \/ /\ events[i].tick = events[j].tick
                    /\ event_priority(events[i].message)
                           <= event_priority(events[j].message)

\* g holds one track: the events of all tracks of f, in the total order, ties
\* in the order of insertion
MergedInto(f, g) ==
    /\ Len(g.tracks) = 1
    /\ Occurrences(TickMessages(g.tracks[1].events))
           = Occurrences(TickMessages(AllEvents(f.tracks, 0)))
    /\ OrderedByTickPriority(g.tracks[1].events)
    /\ TiesKeepOrder(AllEvents(f.tracks, 0), g.tracks[1].events)

\* C16 as stated: for every MidiFile, with zero or more tracks, the format
\* is SingleTrack after merge_tracks(); a file that had at least one track
\* has exactly one, holding the events of all former tracks in the total
\* order.
C16_MergeTracksEveryFile ==
    [][op' = "merge_tracks" =>
           /\ file'.format = "SingleTrack"
           /\ file.tracks # <<>> => MergedInto(file, file')]_vars

\* C16: after merge_tracks() a file that had at least one track has format
\* SingleTrack and exactly one track, holding the events of all former
\* tracks in the total order; a file with no track is left as it was.
C16_MergeTracks ==
    [][op' = "merge_tracks" =>
           IF file.tracks = <<>> THEN file' = file
           ELSE file'.format = "SingleTrack" /\ MergedInto(file, file')]_vars

\* merge_tracks left one sorted track in which the sort moved an event to
\* the front
C16_Witness ==
    /\ op = "merge_tracks"
    /\ file.format = "SingleTrack"
    /\ Len(file.tracks) = 1
    /\ Len(file.tracks[1].events) = MaxEditEvents
    /\ file.tracks[1].events[1].seq > 0

\* the Meta events of a buffer, and the events of one channel, in buffer order
MetaEventsOf(events) == LET Test(e) == is_meta(e) IN SelectSeq(events, Test)

ChannelEventsOf(events, ch) ==
    LET Test(e) == channel(e) = ch IN SelectSeq(events, Test)

\* the channels with at least one event in a buffer, ascending
ChannelsOf(events) ==
    LET used == {ch \in 0..15 : ChannelEventsOf(events, ch) # <<>>}
        RECURSIVE Ascending(_)
        Ascending(rest) ==
            IF rest = {} THEN <<>>
            ELSE <<Min(rest)>> \o Ascending(rest \ {Min(rest)})
    IN Ascending(used)

\* C17: split_tracks_by_channel on a file with at least one track leaves
\* track 0 named "Tempo" with exactly the Meta events of the former track 0
\* in their order, followed in ascending channel order by one track named
\* "Channel i" for each channel i with an event in the former track 0,
\* holding exactly that channel's events in their order; no channel track is
\* empty and the format is MultiTrack.
C17_SplitTracksByChannel ==
    [][(op' = "split_tracks_by_channel" /\ file.tracks # <<>>) =>
           LET source == file.tracks[1].events
               channels == ChannelsOf(source)
           IN /\ file'.format = "MultiTrack"
              /\ Len(file'.tracks) = 1 + Len(channels)
              /\ file'.tracks[1].name = "Tempo"
              /\ TickMessages(file'.tracks[1].events)
                     = TickMessages(MetaEventsOf(source))
              /\ \A i \in 1..Len(channels) :
                     /\ file'.tracks[i + 1].name = ChannelNames[channels[i] + 1]
                     /\ TickMessages(file'.tracks[i + 1].events)
                            = TickMessages(ChannelEventsOf(source, channels[i]))
                     /\ file'.tracks[i + 1].events # <<>>]_vars

\* a split left the Tempo track with a Meta event and two channel tracks
C17_Witness ==
    /\ op = "split_tracks_by_channel"
    /\ Len(file.tracks) = 3
    /\ file.tracks[1].name = "Tempo"
    /\ file.tracks[1].events # <<>>
    /\ file.tracks[2].name = "Channel 0"
    /\ file.tracks[3].name = "Channel 1"

\* the Meta events and the events of channel ch of a buffer, in buffer order
MetaAndChannelOf(events, ch) ==
    LET Test(e) == is_meta(e) \/ channel(e) = ch IN SelectSeq(events, Test)

\* C18: extract_channel(ch) returns a track holding exactly the Meta events
\* and the channel-ch events of the source track, its buffer ordered by the
\* event total order (tick, type priority, then the order in the source) and
\* its is_sorted() true; the source track's events, sorted flag and time
\* mode are unchanged.
C18_ExtractChannel ==
    [][op' = "extract_channel" =>
           LET kept == MetaAndChannelOf(track.events, input')
           IN /\ Occurrences(TickMessages(result'.events))
                     = Occurrences(TickMessages(kept))
              /\ OrderedByTickPriority(result'.events)
              /\ TiesKeepOrder(kept, result'.events)
              /\ is_sorted(result')
              /\ track' = track]_vars

HasEndOfTrack(t) == \E i \in 1..Len(t.events) : t.events[i].message = Meta(EndOfTrack)

\* C19: after finalize() every track contains an EndOfTrack meta event; a
\* track that already contained one is left unchanged, a track lacking one
\* gains exactly one event, an EndOfTrack appended at the end of its buffer;
\* calling finalize() a second time changes nothing.
C19_FinalizeIdempotent ==
    [][op' = "finalize" =>
           /\ Len(file'.tracks) = Len(file.tracks)
           /\ \A i \in 1..Len(file.tracks) :
                  LET before == file.tracks[i]
                      after == file'.tracks[i]
                  IN /\ HasEndOfTrack(after)
                     /\ HasEndOfTrack(before) => after = before
                     /\ ~HasEndOfTrack(before) =>
                            /\ Len(after.events) = Len(before.events) + 1
                            /\ SubSeq(after.events, 1, Len(before.events))
                                   = before.events
                            /\ after.events[Len(after.events)].message
                                   = Meta(EndOfTrack)
           /\ finalize(file') = file'
           /\ op = "finalize" => file' = file]_vars

\* finalize() met a track that held an EndOfTrack followed by a later event,
\* and a track that lacked one
C19_Witness ==
    /\ op = "finalize"
    /\ \E i, j \in 1..Len(file.tracks) :
           /\ i # j
           /\ HasEndOfTrack(file.tracks[i])
           /\ file.tracks[i].events[Len(file.tracks[i].events)].message
                  # Meta(EndOfTrack)
           /\ file.tracks[j].events = <<MidiEvent_new(0, Meta(EndOfTrack))>>

TrackIndexed == {"add_note", "add_tempo", "add_time_signature"}

\* C20: MidiFile::add_note, add_tempo and add_time_signature called with a
\* track index >= num_tracks() return Err(TrackOutOfBounds(index)) and leave
\* the file unchanged; with a valid index they return Ok(()) and modify only
\* the addressed track.
C20_TrackIndexBounds ==
    [][op' \in TrackIndexed =>
           IF input' >= Len(file.tracks)
           THEN /\ result' = Err("TrackOutOfBounds", input')
                /\ file' = file
           ELSE /\ result' = Ok(Unit)
                /\ file'.format = file.format
                /\ file'.ticks_per_quarter = file.ticks_per_quarter
                /\ Len(file'.tracks) = Len(file.tracks)
                /\ \A i \in 1..Len(file.tracks) :
                       i # input' + 1 => file'.tracks[i] = file.tracks[i]
                /\ file'.tracks[input' + 1] # file.tracks[input' + 1]]_vars

\* add_note was refused on a file that has tracks, with an index two past
\* the last one
C20_Witness ==
    /\ op = "add_note"
    /\ file.tracks # <<>>
    /\ input = Len(file.tracks) + 1
    /\ result = Err("TrackOutOfBounds", input)

\* C21: add_note(start, duration, channel, key, velocity) on a track of
\* length n appends exactly two events, a NoteOn at index n with tick start
\* and a NoteOff at index n + 1 with tick start + duration, whose
\* linked_event fields point at each other; events 0..n-1 are unchanged and
\* is_sorted() is false afterwards.
C21_AddNoteFrame ==
    [][(op' = "add_note" /\ result' = Ok(Unit)) =>
           \E start_tick \in NoteStarts :
               /\ file' = MidiFile_add_note(file, input', start_tick, DefaultTpq,
                                            0, 64, 100).file
               /\ LET before == file.tracks[input' + 1]
                      after == file'.tracks[input' + 1]
                      n == Len(before.events)
                      on == At(after.events, n)
                      off == At(after.events, n + 1)
                  IN /\ Len(after.events) = n + 2
                     /\ SubSeq(after.events, 1, n) = before.events
                     /\ on.message.type = "NoteOn" /\ on.tick = start_tick
                     /\ off.message.type = "NoteOff"
                     /\ off.tick = start_tick + DefaultTpq
                     /\ on.linked_event = n + 1
                     /\ off.linked_event = n
                     /\ ~is_sorted(after)]_vars

\* add_note at tick 0 acted on a sorted track that held its full share of
\* events, the last of them at a later tick
C21_Witness ==
    /\ op = "add_note"
    /\ result = Ok(Unit)
    /\ LET events == file.tracks[input + 1].events
       IN /\ Len(events) = MaxEditEvents + 2
          /\ events[MaxEditEvents].tick > 0
          /\ events[MaxEditEvents + 1].tick = 0
          /\ events[MaxEditEvents + 1].linked_event = MaxEditEvents + 1

(***************************************************************************)
(* Properties of the time conversions.                                      *)
(***************************************************************************)
\* the tempo events of the file as <<tick, us>>, track after track
TempoChanges(f) ==
    LET all == AllEvents(f.tracks, 0)
        IsTempo(e) == e.message.type = "Meta" /\ e.message.meta.kind = "Tempo"
        tempos == SelectSeq(all, IsTempo)
    IN [i \in 1..Len(tempos) |-> <<tempos[i].tick, tempos[i].message.meta.us>>]

\* the tempo in force at tick k: that of the latest tempo event with tick <= k
\* (the later one in the file where two stand at one tick), 120 BPM before
\* the first
TempoAt(f, k) ==
    LET changes == TempoChanges(f)
        before == {i \in 1..Len(changes) : changes[i][1] <= k}
    IN IF before = {} THEN DefaultTempo
       ELSE LET latest == CHOOSE i \in before : \A j \in before :
                              \/ changes[j][1] < changes[i][1]
                              \/ changes[j][1] = changes[i][1] /\ j <= i
            IN changes[latest][2]

\* the seconds from tick 0 to tick t, piece by piece between tempo events
RECURSIVE PiecewiseFrom(_, _, _)
PiecewiseFrom(f, from, t) ==
    IF from >= t THEN 0
    ELSE LET changes == TempoChanges(f)
             cuts == {changes[i][1] : i \in 1..Len(changes)}
             later == {c \in cuts : from < c /\ c < t}
             to == IF later = {} THEN t
                   ELSE CHOOSE c \in later : \A d \in later : c <= d
         IN (to - from) * TempoAt(f, from) + PiecewiseFrom(f, to, t)

Piecewise(f, t) == PiecewiseFrom(f, 0, t)

HasTempoOtherThanDefault(f) ==
    \E i \in 1..Len(TempoChanges(f)) : TempoChanges(f)[i][2] # DefaultTempo

\* C22: ticks_to_seconds(t) is the piecewise value built from the tempo
\* events of the file, the latest one with tick <= t deciding the rate, and
\* seconds_to_ticks is its inverse; with one Tempo(500000) at tick 0 and 480
\* ticks per quarter ticks_to_seconds(480) is 0.5 s and seconds_to_ticks(1.0)
\* is 960.
C22_TempoAwareConversion ==
    /\ op = "ticks_to_seconds" => result = Ok(Piecewise(file, input))
    /\ op = "seconds_to_ticks" => result = Ok(input)

\* C23: in every reachable state of a MidiFile the cached time map is
\* absent, in the file at hand and in one from_bytes has returned.
C23_TimeMapAbsent ==
    /\ file.time_map = NoneV
    /\ (op = "from_bytes" /\ result.kind = "Ok") => result.value.time_map = NoneV

C23_Witness ==
    /\ op = "seconds_to_ticks"
    /\ HasTempoOtherThanDefault(file)
    /\ input > 0
    /\ file.time_map = NoneV

\* C24: after update_seconds every event has seconds() = Some(s) with s the
\* file's ticks_to_seconds of its tick, and no tick, message or position has
\* changed.
C24_UpdateSeconds ==
    [][op' = "update_seconds" =>
          /\ Len(file'.tracks) = Len(file.tracks)
          /\ \A i \in 1..Len(file.tracks) :
                 /\ Len(file'.tracks[i].events) = Len(file.tracks[i].events)
                 /\ \A j \in 1..Len(file.tracks[i].events) :
                        LET before == file.tracks[i].events[j]
                            after == file'.tracks[i].events[j]
                        IN /\ after.tick = before.tick
                           /\ after.message = before.message
                           /\ after.seconds # None
                           /\ after.seconds = ticks_to_seconds(file', after.tick)]_vars

MaxOver(S) == IF S = {} THEN 0 ELSE CHOOSE m \in S : \A n \in S : n <= m

\* C30: for every MidiFile with absolute-time tracks, sorted or not,
\* total_ticks() is the greatest tick over all events of all tracks, and 0
\* when there is no event.
C30_TotalTicks ==
    op = "total_ticks" =>
        result = Ok(MaxOver({AllEvents(file.tracks, 0)[i].tick :
                                 i \in 1..Len(AllEvents(file.tracks, 0))}))

\* the events the FIFO matching pairs: the links link_loop writes on the
\* buffer once every link is taken off it
FifoMatched(events) ==
    LET bare == [i \in 1..Len(events) |-> set_linked_event(events[i], None)]
    IN Linked(link_loop(bare, 0, [idx \in NoteSlots(bare) |-> <<>>]))

\* C26: after link_note_events() on a track built by add_event, add_note,
\* insert_event and remove_event, every event with linked_event = Some(j) is
\* paired symmetrically with a different event of its channel and key, one a
\* note-on and the other a note-off whose tick is not below the note-on's,
\* and every note event the FIFO matching left unmatched has linked_event =
\* None.
C26_LinkPostCondition ==
    op = "link_note_events" =>
        LET events == track.events
        IN /\ \A i \in Linked(events) :
                  LET j == At(events, i).linked_event
                  IN /\ j < Len(events)
                     /\ j # i
                     /\ At(events, j).linked_event = i
                     /\ SameNote(At(events, i), At(events, j))
                     /\ \/ /\ is_note_on(At(events, i))
                           /\ is_note_off(At(events, j))
                           /\ At(events, j).tick >= At(events, i).tick
                        \/ /\ is_note_off(At(events, i))
                           /\ is_note_on(At(events, j))
                           /\ At(events, i).tick >= At(events, j).tick
           /\ \A i \in (NoteOns(events) \cup NoteOffs(events)) \ FifoMatched(events) :
                  At(events, i).linked_event = None

(***************************************************************************)
(* Properties of convert_track.                                            *)
(***************************************************************************)
\* the note-ons whose linked_event is a note-off of the buffer
LinkedOns(events) ==
    {i \in NoteOns(events) : At(events, i).linked_event \in NoteOffs(events)}

MeasureOf(start, tpq) == (start \div (4 * tpq)) + 1

\* the elements of the measure that stand at offset ticks / tpq quarter
\* lengths with the pitch given
ElementsAt(measure, ticks, tpq, pitch) ==
    {e \in 1..Len(measure.elements) :
        /\ measure.elements[e].offset[1] * tpq = ticks * measure.elements[e].offset[2]
        /\ measure.elements[e].pitch = pitch}

RECURSIVE ElementCount(_, _)
ElementCount(measures, m) ==
    IF m > Len(measures) THEN 0
    ELSE Len(measures[m].elements) + ElementCount(measures, m + 1)

\* C25: convert_track places a linked note-on that starts at tick s in the
\* measure numbered floor(s / (4 * tpq)) + 1, at the offset
\* (s mod (4 * tpq)) / tpq quarter lengths, whatever TimeSignature events the
\* track holds; the measures are numbered from 1 without a gap, up to the one
\* that holds the last note, empty ones included; and a note-on without a
\* linked note-off gives no note.
C25_FixedMeasureGrouping ==
    op = "convert_track" =>
        LET events == track.events
            tpq == input
            measures == result.value.measures
            ons == LinkedOns(events)
        IN /\ \A m \in 1..Len(measures) : measures[m].number = m
           /\ ons # {} =>
                  \E last \in ons :
                      /\ \A i \in ons : At(events, i).tick <= At(events, last).tick
                      /\ Len(measures) = MeasureOf(At(events, last).tick, tpq)
           /\ \A i \in ons :
                  LET s == At(events, i).tick
                      same == {j \in ons : /\ At(events, j).tick = s
                                           /\ key(At(events, j)) = key(At(events, i))}
                  IN /\ MeasureOf(s, tpq) \in 1..Len(measures)
                     /\ Cardinality(ElementsAt(measures[MeasureOf(s, tpq)],
                                               s % (4 * tpq), tpq,
                                               key(At(events, i))))
                            = Cardinality(same)
           /\ ElementCount(measures, 1) = Cardinality(ons)

\* C28: in a file built with add_event and add_note in any order and then
\* finalized, EndOfTrack is the last event to_bytes writes in each track body
\* and its tick is not below the tick of any other event of the track.
C28_EndOfTrackLast ==
    [][(op = "finalize" /\ op' = "to_bytes") =>
           \A i \in 1..Len(Bodies(wire')) :
               LET written == Written(Bodies(wire')[i])
               IN /\ written # <<>>
                  /\ written[Len(written)].message = Meta(EndOfTrack)
                  /\ \A j \in 1..Len(written) :
                         written[j].tick <= written[Len(written)].tick]_vars

\* how often the (tick, message) pair e stands in the buffer
CountOf(events, e) ==
    Cardinality({i \in 1..Len(events) : TickMessages(events)[i] = e})

\* C29: after split_tracks_by_channel every event of the former track 0,
\* SysEx and system messages included, stands in exactly one of the
\* resulting tracks, and the resulting tracks hold as many events as the
\* former track 0 did.
C29_SplitConservesEvents ==
    [][(op' = "split_tracks_by_channel" /\ file.tracks # <<>>) =>
           LET source == file.tracks[1].events
               split == AllEvents(file'.tracks, 0)
           IN /\ Len(split) = Len(source)
              /\ \A i \in 1..Len(source) :
                     CountOf(split, TickMessages(source)[i])
                         = CountOf(source, TickMessages(source)[i])]_vars

\* C27: after any sequence of add_event, insert_event, remove_event, add_note,
\* merge, clear, sort, make_delta_times and make_absolute_times, whenever
\* is_absolute_time() and is_sorted() are both true the ticks of the buffer
\* do not decrease; so abs_tick - prev_tick in make_delta_times never goes
\* below zero.
C27_TickMonotone ==
    /\ (is_absolute_time(track) /\ is_sorted(track)) =>
           \A i, j \in 1..Len(track.events) :
               i < j => track.events[i].tick <= track.events[j].tick
    /\ \A i \in 1..Len(track.events) : track.events[i].tick # Overflowed

\* make_delta_times met an absolute-time track with the flag off and a tick
\* below the one before it, and left deltas
C27_Witness ==
    /\ op = "make_delta_times"
    /\ saved # NoTrack
    /\ ~is_sorted(saved)
    /\ Len(saved.events) = MaxLen
    /\ \E i \in 1..(Len(saved.events) - 1) :
           saved.events[i + 1].tick < saved.events[i].tick
    /\ ~is_absolute_time(track)
    /\ is_sorted(track)
    /\ \E i \in 1..Len(track.events) : track.events[i].tick > 0

====
